---- MODULE Spec2Model ----
(***************************************************************************)
(* State-machine model of the wireweave VS Code extension: the diagnostics *)
(* scanner (validateDocument), the completion provider                     *)
(* (provideCompletionItems, findParentComponent), the diagnostics          *)
(* collection kept up to date by the workspace events, the preview panel   *)
(* (createOrShow, updateContent, dispose), the size and the error          *)
(* rendering of the previews, and the export command.                      *)
(*                                                                         *)
(* Text is a sequence of one-character strings.  Columns are 0-based as in *)
(* the source; the character at column j of a line is line[j + 1].         *)
(***************************************************************************)
EXTENDS Integers, Sequences, FiniteSets, TLC

VARIABLES
    text,                 \* validateDocument: document.getText()
    lines,                \* validateDocument: text.split('\n')
    i,                    \* validateDocument: index of the line the loop is at
    braceStack,           \* validateDocument: stack of open braces
    hasPage,              \* validateDocument: a page line has been seen
    diagnostics,          \* validateDocument: the diagnostics pushed so far
    pc,                   \* validateDocument: position in the function
    textDocuments,        \* workspace.textDocuments: uri -> text of the open documents
    diagnosticCollection, \* the 'wireframe' DiagnosticCollection: uri -> diagnostics
    lastEvent,            \* the workspace event whose handlers ran last
    document,             \* provideCompletionItems: the document's lines
    position,             \* provideCompletionItems: the cursor
    items,                \* provideCompletionItems: the returned items
    parentFound,          \* findParentComponent: the returned name
    cpc,                  \* provideCompletionItems: called or not yet
    activeTextEditor,     \* window.activeTextEditor: the uri of its document
    autoPreview,          \* the wireframe.autoPreview setting read by activate
    timers,               \* the setTimeout callbacks not yet run
    panels,               \* the webview panels of the extension that are not disposed
    currentPanel,         \* WireframePreviewPanel.currentPanel is set
    html,                 \* currentPanel.panel.webview.html
    visible,              \* currentPanel.panel.visible
    uncaught,             \* an exception has left a callback of the extension
    exportState,          \* exportToFile: where the command stands
    exportDocument,       \* exportToFile: editor.document
    exportContent,        \* exportToFile: content, while it is written
    notifications,        \* the messages shown to the user
    files,                \* the contents written by workspace.fs.writeFile
    args,                 \* a function called alone: its arguments
    returned,             \* a function called alone: what it returned
    called                \* a function called alone: its name

vars == <<text, lines, i, braceStack, hasPage, diagnostics, pc,
          textDocuments, diagnosticCollection, lastEvent, document, position, items,
          parentFound, cpc, activeTextEditor, autoPreview, timers, panels, currentPanel,
          html, visible, uncaught, exportState, exportDocument, exportContent,
          notifications, files,
          args, returned, called>>

scanVars == <<text, lines, i, braceStack, hasPage, diagnostics, pc>>
workspaceVars == <<textDocuments, diagnosticCollection, lastEvent>>
completionVars == <<document, position, items, parentFound, cpc>>
hostVars == <<activeTextEditor, autoPreview, timers, panels, currentPanel, html, visible,
              uncaught>>
exportVars == <<exportState, exportDocument, exportContent, notifications, files>>
callVars == <<args, returned, called>>

-----------------------------------------------------------------------------
(* Bounds of the model *)

\* Longest scanned document, in fragments of ScanFrags
MaxFrags == 4

\* Longest text of a workspace document, in fragments of DocFrags
MaxDocFrags == 1

\* Longest document completion is asked in, in fragments of CompletionFrags
MaxCompletionFrags == 3

\* Longest error message, in fragments of EscapeFrags
MaxEscapeFrags == 3

\* Most setTimeout callbacks waiting at a time
MaxTimers == 1

\* Most messages shown to the user by the export command
MaxNotifications == 2

\* Longest info string of a markdown fence, in fragments of InfoFrags
MaxInfoFrags == 3

-----------------------------------------------------------------------------
(* Characters and strings *)

NL == "\n"
QUOTE == "\""

\* \w of the regular expressions
WordChars ==
    {"a", "b", "c", "d", "e", "f", "g", "h", "i", "j", "k", "l", "m",
     "n", "o", "p", "q", "r", "s", "t", "u", "v", "w", "x", "y", "z",
     "0", "1", "2", "3", "4", "5", "6", "7", "8", "9", "_"}

\* \s of the regular expressions, and what trim() strips
SpaceChars == {" ", "\t", "\r", "\n", "\f"}

IsWord(c) == c \in WordChars
IsSpace(c) == c \in SpaceChars

Min(S) == CHOOSE x \in S : \A y \in S : x <= y
Max(S) == CHOOSE x \in S : \A y \in S : x >= y

\* s.substring(a, b) with 0-based a, b (0 <= a <= b <= length)
Substring(s, a, b) == SubSeq(s, a + 1, b)

\* First 1-based index >= k at which s has no word character (Len(s)+1 if none)
WordEnd(s, k) ==
    LET stop == {m \in k..Len(s) : ~IsWord(s[m])}
    IN  IF stop = {} THEN Len(s) + 1 ELSE Min(stop)

\* First 1-based index >= k at which s has no whitespace (Len(s)+1 if none)
SpaceEnd(s, k) ==
    LET stop == {m \in k..Len(s) : ~IsSpace(s[m])}
    IN  IF stop = {} THEN Len(s) + 1 ELSE Min(stop)

\* s.trim()
Trim(s) ==
    LET keep == {m \in 1..Len(s) : ~IsSpace(s[m])}
    IN  IF keep = {} THEN <<>> ELSE SubSeq(s, Min(keep), Max(keep))

\* s.startsWith(p)
StartsWith(s, p) == Len(s) >= Len(p) /\ SubSeq(s, 1, Len(p)) = p

\* The 1-based indices at which a maximal run of word characters starts
WordStarts(s) ==
    {k \in 1..Len(s) : IsWord(s[k]) /\ (k = 1 \/ ~IsWord(s[k - 1]))}

RECURSIVE Split(_)
\* s.split('\n')
Split(s) ==
    LET nl == {m \in 1..Len(s) : s[m] = NL}
    IN  IF nl = {} THEN <<s>>
        ELSE <<SubSeq(s, 1, Min(nl) - 1)>> \o Split(SubSeq(s, Min(nl) + 1, Len(s)))

RECURSIVE Concat(_)
\* The concatenation of a sequence of strings
Concat(ss) == IF ss = <<>> THEN <<>> ELSE Head(ss) \o Concat(Tail(ss))

-----------------------------------------------------------------------------
(* @wireweave/language-data: the table the extension imports.  A small     *)
(* table with one attribute of each value domain.                          *)

pageName == <<"p", "a", "g", "e">>
rowName == <<"r", "o", "w">>
buttonName == <<"b", "u", "t", "t", "o", "n">>

justifyName == <<"j", "u", "s", "t", "i", "f", "y">>
gapName == <<"g", "a", "p">>
altName == <<"a", "l", "t">>
primaryName == <<"p", "r", "i", "m", "a", "r", "y">>

\* validChildren: the names getValidChildren gives for the component; page
\* declares none
ALL_COMPONENTS ==
    << [name |-> pageName, category |-> "layout", hasChildren |-> TRUE,
        attributes |-> <<gapName>>, validChildren |-> <<>>],
       [name |-> rowName, category |-> "grid", hasChildren |-> TRUE,
        attributes |-> <<gapName, justifyName>>, validChildren |-> <<buttonName>>],
       [name |-> buttonName, category |-> "input", hasChildren |-> FALSE,
        attributes |-> <<primaryName, altName>>, validChildren |-> <<>>] >>

\* CATEGORY_LABELS: a label for some of the categories
CATEGORY_LABELS == [layout |-> "Layout", grid |-> "Grid"]

ATTRIBUTES ==
    << [name |-> justifyName, values |-> "enum",
        literals |-> << <<"s", "t", "a", "r", "t">>,
                        <<"c", "e", "n", "t", "e", "r">>,
                        <<"e", "n", "d">> >>],
       [name |-> gapName, values |-> "number", literals |-> <<>>],
       [name |-> altName, values |-> "string", literals |-> <<>>],
       [name |-> primaryName, values |-> "boolean", literals |-> <<>>] >>

\* What a failed lookup returns
Undefined == [name |-> <<>>, values |-> "undefined", literals |-> <<>>,
              attributes |-> <<>>, validChildren |-> <<>>]

ComponentNames == {ALL_COMPONENTS[k].name : k \in 1..Len(ALL_COMPONENTS)}
AttributeNames == {ATTRIBUTES[k].name : k \in 1..Len(ATTRIBUTES)}

\* getComponent(name) finds a definition
HasComponent(name) == name \in ComponentNames

\* getAttribute(name) finds a definition
HasAttribute(name) == name \in AttributeNames

getComponent(name) ==
    IF HasComponent(name)
    THEN ALL_COMPONENTS[CHOOSE k \in 1..Len(ALL_COMPONENTS) : ALL_COMPONENTS[k].name = name]
    ELSE Undefined

getAttribute(name) ==
    IF HasAttribute(name)
    THEN ATTRIBUTES[CHOOSE k \in 1..Len(ATTRIBUTES) : ATTRIBUTES[k].name = name]
    ELSE Undefined

\* getValidChildren(name): the definitions of the component's valid children
getValidChildren(name) ==
    LET names == getComponent(name).validChildren
    IN  [k \in 1..Len(names) |-> getComponent(names[k])]

\* getComponentAttributes(name): the definitions of the component's attributes
getComponentAttributes(name) ==
    LET names == getComponent(name).attributes
    IN  [k \in 1..Len(names) |-> getAttribute(names[k])]

\* getCategoryLabel(category): CATEGORY_LABELS[category] || category
getCategoryLabel(category) ==
    IF category \in DOMAIN CATEGORY_LABELS THEN CATEGORY_LABELS[category] ELSE category

-----------------------------------------------------------------------------
(* validateDocument: the regular expressions of the scan *)

\* line.trim().startsWith('//')
IsCommentLine(line) == StartsWith(Trim(line), <<"/", "/">>)

\* line.match(/^\s*page\b/)
MatchesPage(line) ==
    LET k == SpaceEnd(line, 1)
    IN  /\ StartsWith(SubSeq(line, k, Len(line)), pageName)
        /\ (k + 4 > Len(line) \/ ~IsWord(line[k + 4]))

\* line.match(/^\s*(\w+)(?:\s|{|")/): the match is found
ComponentMatchFound(line) ==
    LET k == SpaceEnd(line, 1)
        e == WordEnd(line, k)
    IN  /\ e > k
        /\ e <= Len(line)
        /\ (IsSpace(line[e]) \/ line[e] = "{" \/ line[e] = QUOTE)

\* componentMatch[1]
ComponentMatchName(line) ==
    LET k == SpaceEnd(line, 1)
    IN  SubSeq(line, k, WordEnd(line, k) - 1)

\* componentMatch.index as the column of the identifier
ComponentMatchIndex_OfIdentifier(line) == SpaceEnd(line, 1) - 1

\* componentMatch.index: the pattern is anchored with ^, the match starts at 0
ComponentMatchIndex(line) == 0

\* s.match(/=\s*$/)
EndsWithEquals(s) ==
    LET keep == {m \in 1..Len(s) : ~IsSpace(s[m])}
    IN  keep # {} /\ s[Max(keep)] = "="

\* line.matchAll(/\b(\w+)\s*=/g): the 1-based starts of the matches, in order
AttrMatchStarts(line) ==
    {k \in WordStarts(line) :
        LET e == SpaceEnd(line, WordEnd(line, k))
        IN  e <= Len(line) /\ line[e] = "="}

\* The elements of a finite set of integers, in increasing order
RECURSIVE SortedSeq(_)
SortedSeq(S) == IF S = {} THEN <<>> ELSE <<Min(S)>> \o SortedSeq(S \ {Min(S)})

\* s.match(/(\w+)(?:\s+"[^"]*")?\s*$/) tried at the word starting at k:
\* the word, an optional quoted string after whitespace, whitespace, the end
TrailingAt(s, k) ==
    LET e == WordEnd(s, k)
        q == SpaceEnd(s, e)
        close == {m \in (q + 1)..Len(s) : s[m] = QUOTE}
    IN  \/ SpaceEnd(s, e) = Len(s) + 1
        \/ /\ q > e
           /\ q <= Len(s)
           /\ s[q] = QUOTE
           /\ close # {}
           /\ SpaceEnd(s, Min(close) + 1) = Len(s) + 1

\* s.match(/(\w+)(?:\s+"[^"]*")?\s*$/) finds a match
TrailingFound(s) == \E k \in WordStarts(s) : TrailingAt(s, k)

\* match[1] of it: the leftmost match wins
TrailingName(s) ==
    LET k == Min({m \in WordStarts(s) : TrailingAt(s, m)})
    IN  SubSeq(s, k, WordEnd(s, k) - 1)

\* line.match(/"/g).length
QuoteCount(line) == Cardinality({m \in 1..Len(line) : line[m] = QUOTE})

-----------------------------------------------------------------------------
(* validateDocument: the scan *)

\* new vscode.Diagnostic(new vscode.Range(line, startCol, line, endCol), message, severity);
\* detail is the name the message interpolates, <<>> when it has none
Diagnostic(line, startCol, endCol, message, detail, severity) ==
    [line |-> line, startCol |-> startCol, endCol |-> endCol,
     message |-> message, detail |-> detail, severity |-> severity]

\* The local state of one scan
ScanState(stack, page, diags) ==
    [braceStack |-> stack, hasPage |-> page, diagnostics |-> diags]

InitialScanState == ScanState(<<>>, FALSE, <<>>)

\* CheckPage with the flag left unset (hasPage = true forgotten)
CheckPage_FlagNotSet(st, n, line) ==
    IF MatchesPage(line)
    THEN ScanState(st.braceStack, st.hasPage,
            IF st.hasPage
            THEN Append(st.diagnostics,
                    Diagnostic(n, 0, Len(line), "Only one page component is allowed.",
                               <<>>, "Error"))
            ELSE st.diagnostics)
    ELSE st

\* Check for page component
CheckPage(st, n, line) ==
    IF MatchesPage(line)
    THEN ScanState(st.braceStack, TRUE,
            IF st.hasPage
            THEN Append(st.diagnostics,
                    Diagnostic(n, 0, Len(line), "Only one page component is allowed.",
                               <<>>, "Error"))
            ELSE st.diagnostics)
    ELSE st

\* ['true', 'false'] of the unknown-component check
BooleanNames == {<<"t", "r", "u", "e">>, <<"f", "a", "l", "s", "e">>}

\* CheckUnknownComponent that does not except true and false
CheckUnknownComponent_NoBooleans(st, n, line) ==
    IF /\ ComponentMatchFound(line)
       /\ ~HasComponent(ComponentMatchName(line))
    THEN ScanState(st.braceStack, st.hasPage,
            Append(st.diagnostics,
                Diagnostic(n, 0, Len(ComponentMatchName(line)),
                           "Unknown component", ComponentMatchName(line), "Warning")))
    ELSE st

\* Check for unknown components
CheckUnknownComponent(st, n, line) ==
    IF /\ ComponentMatchFound(line)
       /\ ~HasComponent(ComponentMatchName(line))
       /\ ComponentMatchName(line) \notin BooleanNames
       /\ ~EndsWithEquals(Substring(line, 0, ComponentMatchIndex(line)))
    THEN ScanState(st.braceStack, st.hasPage,
            Append(st.diagnostics,
                Diagnostic(n, ComponentMatchIndex(line),
                           ComponentMatchIndex(line) + Len(ComponentMatchName(line)),
                           "Unknown component", ComponentMatchName(line), "Warning")))
    ELSE st

\* AttrDiagnostic that looks the name up among the attributes only
AttrDiagnostic_AttributesOnly(n, line, k) ==
    LET attrName == SubSeq(line, k, WordEnd(line, k) - 1)
    IN  IF ~HasAttribute(attrName)
        THEN <<Diagnostic(n, k - 1, k - 1 + Len(attrName), "Unknown attribute",
                          attrName, "Warning")>>
        ELSE <<>>

\* The warning of one match of the unknown-attribute pattern, if it gives one
AttrDiagnostic(n, line, k) ==
    LET attrName == SubSeq(line, k, WordEnd(line, k) - 1)
    IN  IF ~HasAttribute(attrName) /\ ~HasComponent(attrName)
        THEN <<Diagnostic(n, k - 1, k - 1 + Len(attrName), "Unknown attribute",
                          attrName, "Warning")>>
        ELSE <<>>

RECURSIVE AttrDiagnostics(_, _, _)
AttrDiagnostics(n, line, starts) ==
    IF starts = <<>> THEN <<>>
    ELSE AttrDiagnostic(n, line, Head(starts)) \o AttrDiagnostics(n, line, Tail(starts))

\* Check for unknown attributes
CheckUnknownAttributes(st, n, line) ==
    ScanState(st.braceStack, st.hasPage,
        st.diagnostics \o AttrDiagnostics(n, line, SortedSeq(AttrMatchStarts(line))))

\* TrackBrace with the pop of a matched '}' left out
TrackBrace_NoPop(st, n, j, line) ==
    IF line[j + 1] = "{"
    THEN ScanState(
            Append(st.braceStack,
                [line |-> n, col |-> j,
                 component |-> IF TrailingFound(Substring(line, 0, j))
                               THEN TrailingName(Substring(line, 0, j)) ELSE <<>>]),
            st.hasPage, st.diagnostics)
    ELSE IF line[j + 1] = "}" /\ Len(st.braceStack) = 0
    THEN ScanState(st.braceStack, st.hasPage,
            Append(st.diagnostics,
                Diagnostic(n, j, j + 1, "Unmatched closing brace", <<>>, "Error")))
    ELSE st

\* Track braces for matching: the character at column j of line n
TrackBrace(st, n, j, line) ==
    IF line[j + 1] = "{"
    THEN LET beforeBrace == Substring(line, 0, j)
         IN  ScanState(
                Append(st.braceStack,
                    [line |-> n, col |-> j,
                     component |-> IF TrailingFound(beforeBrace)
                                   THEN TrailingName(beforeBrace) ELSE <<>>]),
                st.hasPage, st.diagnostics)
    ELSE IF line[j + 1] = "}"
    THEN IF Len(st.braceStack) = 0
         THEN ScanState(st.braceStack, st.hasPage,
                Append(st.diagnostics,
                    Diagnostic(n, j, j + 1, "Unmatched closing brace", <<>>, "Error")))
         ELSE ScanState(SubSeq(st.braceStack, 1, Len(st.braceStack) - 1),
                        st.hasPage, st.diagnostics)
    ELSE st

RECURSIVE TrackBraces(_, _, _, _)
\* for (let j = 0; j < line.length; j++), from column j on
TrackBraces(st, n, j, line) ==
    IF j >= Len(line) THEN st
    ELSE TrackBraces(TrackBrace(st, n, j, line), n, j + 1, line)

\* CheckQuotes without the parity test: any quote on the line is an error
CheckQuotes_AnyQuote(st, n, line) ==
    IF QuoteCount(line) > 0
    THEN ScanState(st.braceStack, st.hasPage,
            Append(st.diagnostics,
                Diagnostic(n, 0, Len(line), "Unclosed string", <<>>, "Error")))
    ELSE st

\* Check for unclosed strings
CheckQuotes(st, n, line) ==
    IF QuoteCount(line) > 0 /\ QuoteCount(line) % 2 # 0
    THEN ScanState(st.braceStack, st.hasPage,
            Append(st.diagnostics,
                Diagnostic(n, 0, Len(line), "Unclosed string", <<>>, "Error")))
    ELSE st

\* ScanLine with comment lines skipped by the name checks only: their braces
\* and quotes are tracked
ScanLine_TrackComments(st, n, line) ==
    IF IsCommentLine(line)
    THEN CheckQuotes(TrackBraces(st, n, 0, line), n, line)
    ELSE CheckQuotes(
            TrackBraces(
                CheckUnknownAttributes(
                    CheckUnknownComponent(CheckPage(st, n, line), n, line),
                    n, line),
                n, 0, line),
            n, line)

\* One iteration of the loop over the lines: line n (0-based) of the document
ScanLine(st, n, line) ==
    IF IsCommentLine(line) THEN st
    ELSE CheckQuotes(
            TrackBraces(
                CheckUnknownAttributes(
                    CheckUnknownComponent(CheckPage(st, n, line), n, line),
                    n, line),
                n, 0, line),
            n, line)

\* UnclosedDiagnostics reporting only the innermost open brace
UnclosedDiagnostics_TopOnly(stack) ==
    IF stack = <<>> THEN <<>>
    ELSE <<Diagnostic(stack[Len(stack)].line, stack[Len(stack)].col,
                      stack[Len(stack)].col + 1, "Unclosed brace",
                      stack[Len(stack)].component, "Error")>>

\* Check for unclosed braces: one diagnostic per entry left on the stack
UnclosedDiagnostics(stack) ==
    [k \in 1..Len(stack) |->
        Diagnostic(stack[k].line, stack[k].col, stack[k].col + 1,
                   "Unclosed brace", stack[k].component, "Error")]

\* MissingPageDiagnostics with a one-column range in place of the empty one
MissingPageDiagnostics_OneColumn(st, txt) ==
    IF ~st.hasPage /\ Trim(txt) # <<>>
    THEN <<Diagnostic(0, 0, 1, "Consider starting with a page component.", <<>>,
                      "Information")>>
    ELSE <<>>

\* MissingPageDiagnostics that does not look at the text
MissingPageDiagnostics_AnyText(st, txt) ==
    IF ~st.hasPage
    THEN <<Diagnostic(0, 0, 0, "Consider starting with a page component.", <<>>,
                      "Information")>>
    ELSE <<>>

\* Info if no page component
MissingPageDiagnostics(st, txt) ==
    IF ~st.hasPage /\ Trim(txt) # <<>>
    THEN <<Diagnostic(0, 0, 0, "Consider starting with a page component.", <<>>,
                      "Information")>>
    ELSE <<>>

\* What follows the loop: the diagnostics handed to diagnosticCollection.set
FinishScan(st, txt) ==
    st.diagnostics \o UnclosedDiagnostics(st.braceStack) \o MissingPageDiagnostics(st, txt)

RECURSIVE ScanLines(_, _, _)
\* for (let i = 0; i < lines.length; i++), from line n on
ScanLines(st, n, ls) ==
    IF n >= Len(ls) THEN st
    ELSE ScanLines(ScanLine(st, n, ls[n + 1]), n + 1, ls)

\* The diagnostics validateDocument computes for a wireframe document's text
ScanText(txt) == FinishScan(ScanLines(InitialScanState, 0, Split(txt)), txt)

-----------------------------------------------------------------------------
(* The documents the scan is checked on: every concatenation of at most    *)
(* MaxFrags of these fragments                                             *)

ScanFrags ==
    {pageName, <<"{">>, <<"}">>, <<QUOTE>>, <<"/", "/">>, <<" ">>, <<NL>>,
     <<"z", "z">>, <<"=">>}

FragTexts(frags, n) == {Concat(f) : f \in UNION {[1..m -> frags] : m \in 0..n}}

SP == <<" ">>
LF == <<NL>>
OPEN == <<"{">>
CLOSE == <<"}">>
SLASHES == <<"/", "/">>

\* Longer documents: comments inside a page block, and the README's sample
ScanSamples ==
    { \* page {  //  }  with the comment on its own line
      Concat(<<pageName, SP, OPEN, LF, SLASHES, SP, CLOSE, LF>>),
      \* page  // {  }  with the comment on its own line
      Concat(<<pageName, LF, SLASHES, OPEN, LF, CLOSE>>),
      \* a closed page block with a quote in a comment
      Concat(<<pageName, SP, OPEN, LF, SP, SLASHES, <<QUOTE>>, LF, CLOSE>>),
      \* page "a" { row justify=end { button "b" primary } } over five lines
      Concat(<<pageName, SP, <<QUOTE, "a", QUOTE>>, SP, OPEN, LF,
               SP, rowName, SP, justifyName, <<"=", "e", "n", "d">>, SP, OPEN, LF,
               SP, SP, buttonName, SP, <<QUOTE, "b", QUOTE>>, SP, primaryName, LF,
               SP, CLOSE, LF, CLOSE>>),
      \* lines that start with true, false, an attribute and a component
      Concat(<<<<"t", "r", "u", "e">>, SP, OPEN, LF,
               SP, <<"f", "a", "l", "s", "e">>, <<QUOTE>>, LF,
               SP, gapName, SP, <<"=">>, SP, <<"z", "z">>, SP, OPEN, LF,
               rowName, OPEN>>),
      \* row gap=a row= zz  = "yy=" : known and unknown names before '='
      Concat(<<rowName, SP, gapName, <<"=", "a">>, SP, rowName, <<"=">>, SP,
               <<"z", "z">>, SP, SP, <<"=">>, SP, <<QUOTE, "y", "y", "=", QUOTE>>>>) }

ScanTexts == FragTexts(ScanFrags, MaxFrags) \cup ScanSamples

\* The variables of the workspace and of the completion provider, at rest
WorkspaceIdle ==
    /\ textDocuments = <<>>
    /\ diagnosticCollection = <<>>
    /\ lastEvent = "none"

CompletionIdle ==
    /\ document = <<>>
    /\ position = [line |-> 0, character |-> 0]
    /\ items = <<>>
    /\ parentFound = <<>>
    /\ cpc = "idle"

HostIdle ==
    /\ activeTextEditor = "none"
    /\ autoPreview = FALSE
    /\ timers = 0
    /\ panels = 0
    /\ currentPanel = FALSE
    /\ html = <<>>
    /\ visible = FALSE
    /\ uncaught = FALSE

ExportIdle ==
    /\ exportState = "idle"
    /\ exportDocument = "none"
    /\ exportContent = <<>>
    /\ notifications = <<>>
    /\ files = <<>>

CallIdle ==
    /\ args = <<>>
    /\ returned = <<>>
    /\ called = "none"

ScanIdle ==
    /\ text = <<>>
    /\ lines = <<>>
    /\ i = 0
    /\ braceStack = <<>>
    /\ hasPage = FALSE
    /\ diagnostics = <<>>
    /\ pc = "idle"

-----------------------------------------------------------------------------
(* validateDocument on one wireframe document, an iteration of the loop    *)
(* over the lines at a time                                                *)

InitScan ==
    /\ text \in ScanTexts
    /\ lines = <<>>
    /\ i = 0
    /\ braceStack = <<>>
    /\ hasPage = FALSE
    /\ diagnostics = <<>>
    /\ pc = "start"
    /\ WorkspaceIdle
    /\ CompletionIdle
    /\ HostIdle
    /\ ExportIdle
    /\ CallIdle

\* The declarations before the loop
ScanBegin ==
    /\ pc = "start"
    /\ lines' = Split(text)
    /\ braceStack' = InitialScanState.braceStack
    /\ hasPage' = InitialScanState.hasPage
    /\ diagnostics' = InitialScanState.diagnostics
    /\ i' = 0
    /\ pc' = "loop"
    /\ UNCHANGED <<text, workspaceVars, completionVars, hostVars, exportVars, callVars>>

\* One iteration of the loop
ScanStep ==
    /\ pc = "loop"
    /\ i < Len(lines)
    /\ LET st == ScanLine(ScanState(braceStack, hasPage, diagnostics), i, lines[i + 1])
       IN  /\ braceStack' = st.braceStack
           /\ hasPage' = st.hasPage
           /\ diagnostics' = st.diagnostics
    /\ i' = i + 1
    /\ UNCHANGED <<text, lines, pc, workspaceVars, completionVars, hostVars, exportVars, callVars>>

\* The checks after the loop
ScanEnd ==
    /\ pc = "loop"
    /\ i = Len(lines)
    /\ diagnostics' = FinishScan(ScanState(braceStack, hasPage, diagnostics), text)
    /\ pc' = "done"
    /\ UNCHANGED <<text, lines, i, braceStack, hasPage, workspaceVars, completionVars, hostVars, exportVars, callVars>>

NextScan == ScanBegin \/ ScanStep \/ ScanEnd

SpecScan == InitScan /\ [][NextScan]_vars

-----------------------------------------------------------------------------
(* Properties of the scan *)

\* How many times character c occurs in s
CountChar(s, c) == Cardinality({m \in 1..Len(s) : s[m] = c})

\* How many of the diagnostics carry this message
CountMessage(diags, message) ==
    Cardinality({k \in 1..Len(diags) : diags[k].message = message})

\* The first token of a line: the word after its leading whitespace
FirstToken(line) ==
    LET k == SpaceEnd(line, 1)
    IN  SubSeq(line, k, WordEnd(line, k) - 1)

\* A comment line: its first characters after the leading whitespace are //
CommentLine(line) ==
    LET k == SpaceEnd(line, 1)
    IN  k + 1 <= Len(line) /\ line[k] = "/" /\ line[k + 1] = "/"

\* The 0-based indices of the lines whose first token is page
PageLines(ls) == {n \in 0..(Len(ls) - 1) : FirstToken(ls[n + 1]) = pageName}

RECURSIVE BracesFrom(_, _)
\* The braces of the lines from line n on that are not comment lines, in
\* the order of the text: <<line, column, character>>
BracesFrom(ls, n) ==
    IF n >= Len(ls) THEN <<>>
    ELSE LET line == ls[n + 1]
             cols == IF CommentLine(line) THEN {}
                     ELSE {j \in 0..(Len(line) - 1) : line[j + 1] \in {"{", "}"}}
             sorted == SortedSeq(cols)
         IN  [k \in 1..Len(sorted) |-> <<n, sorted[k], line[sorted[k] + 1]>>]
             \o BracesFrom(ls, n + 1)

\* The braces of the first n lines
BracesBefore(ls, n) == BracesFrom(SubSeq(ls, 1, n), 0)

\* Opening minus closing braces among bs[p..q]
Excess(bs, p, q) ==
    Cardinality({m \in p..q : bs[m][3] = "{"}) - Cardinality({m \in p..q : bs[m][3] = "}"})

\* A closing brace that no earlier opening brace is left for
IsUnmatched(bs, q) == bs[q][3] = "}" /\ \A p \in 1..q : Excess(bs, p, q) < 0

\* An opening brace that no later closing brace closes
IsUnclosed(bs, p) == bs[p][3] = "{" /\ \A q \in p..Len(bs) : Excess(bs, p, q) > 0

\* The <<line, startCol, endCol>> of the diagnostics with this message, in order
RangesOf(diags, message) ==
    LET sel == SelectSeq(diags, LAMBDA d : d.message = message)
    IN  [k \in 1..Len(sel) |-> <<sel[k].line, sel[k].startCol, sel[k].endCol>>]

\* The one-column ranges of the braces of bs that satisfy Test, in order
BraceRanges(bs, Test(_, _)) ==
    LET idx == SortedSeq({m \in 1..Len(bs) : Test(bs, m)})
    IN  [k \in 1..Len(idx) |-> <<bs[idx[k]][1], bs[idx[k]][2], bs[idx[k]][2] + 1>>]

\* Braces nest: no prefix closes more than it opened, and nothing stays open
Nested(s) ==
    /\ \A m \in 1..Len(s) :
          CountChar(SubSeq(s, 1, m), "}") <= CountChar(SubSeq(s, 1, m), "{")
    /\ CountChar(s, "}") = CountChar(s, "{")

ErrorCount(diags) == Cardinality({k \in 1..Len(diags) : diags[k].severity = "Error"})

\* C1 as stated: with d = ('{' in the text) - ('}' in the text), a positive d
\* is the number of 'Unclosed brace' diagnostics and a negative d is minus
\* the number of 'Unmatched closing brace' diagnostics.
C1_AsStated ==
    pc = "done" =>
        LET d == CountChar(text, "{") - CountChar(text, "}")
        IN  /\ d > 0 => CountMessage(diagnostics, "Unclosed brace") = d
            /\ d < 0 => CountMessage(diagnostics, "Unmatched closing brace") = -d

\* C1 amended: counting the braces of the lines that are not comment lines,
\* the number of 'Unclosed brace' diagnostics minus the number of
\* 'Unmatched closing brace' diagnostics is ('{' count) - ('}' count).
C1_BraceReconciliation ==
    pc = "done" =>
        LET bs == BracesFrom(Split(text), 0)
        IN  CountMessage(diagnostics, "Unclosed brace")
              - CountMessage(diagnostics, "Unmatched closing brace")
            = Excess(bs, 1, Len(bs))

\* A finished scan that met both an unmatched '}' and a '{' it never closed
C1_Witness ==
    /\ pc = "done"
    /\ CountMessage(diagnostics, "Unclosed brace") > 0
    /\ CountMessage(diagnostics, "Unmatched closing brace") > 0

\* The characters of the braces of bs, in order
BraceChars(bs) == [k \in 1..Len(bs) |-> bs[k][3]]

\* C2 as stated: a document whose braces nest, whose lines each have an
\* even number of quote characters and that has exactly one line starting
\* with page gets no diagnostic of severity Error.
C2_AsStated ==
    (/\ pc = "done"
     /\ Nested(text)
     /\ \A n \in 1..Len(lines) : CountChar(lines[n], QUOTE) % 2 = 0
     /\ Cardinality(PageLines(lines)) = 1)
    => ErrorCount(diagnostics) = 0

\* What C2 requires of a document, read over the lines that are not comment
\* lines and with the quotes counted line by line
WellFormed(ls) ==
    /\ Nested(BraceChars(BracesFrom(ls, 0)))
    /\ \A n \in 1..Len(ls) : CommentLine(ls[n]) \/ CountChar(ls[n], QUOTE) % 2 = 0
    /\ Cardinality(PageLines(ls)) = 1

\* C2 amended: a document gets no diagnostic of severity Error when, over
\* its lines that are not comment lines, the braces nest and every line has
\* an even number of quote characters, and exactly one line starts with page.
C2_NoErrorWhenWellFormed ==
    (pc = "done" /\ WellFormed(lines)) => ErrorCount(diagnostics) = 0

\* A finished scan of a well-formed document that has a brace pair
C2_Witness ==
    /\ pc = "done"
    /\ WellFormed(lines)
    /\ CountChar(text, "{") > 0

\* The <<line, col, col + 1>> of the entries of the brace stack, bottom first
StackRanges(stack) ==
    [k \in 1..Len(stack) |-> <<stack[k].line, stack[k].col, stack[k].col + 1>>]

\* C3: while the scan runs, the brace stack holds exactly the '{' of the
\* lines scanned so far that no '}' has closed, and the 'Unmatched closing
\* brace' errors are exactly the '}' met with nothing to close, one each, on
\* the column of that '}'; when the scan is done the 'Unclosed brace' errors
\* are exactly the '{' never closed, one each, at the position of that '{'.
C3_BraceDiagnostics ==
    /\ pc \in {"loop", "done"} =>
          LET bs == BracesBefore(lines, i)
          IN  /\ StackRanges(braceStack) = BraceRanges(bs, IsUnclosed)
              /\ RangesOf(diagnostics, "Unmatched closing brace")
                    = BraceRanges(bs, IsUnmatched)
    /\ pc = "done" =>
          /\ RangesOf(diagnostics, "Unclosed brace")
                = BraceRanges(BracesFrom(lines, 0), IsUnclosed)
          /\ \A k \in 1..Len(diagnostics) :
                diagnostics[k].message \in {"Unclosed brace", "Unmatched closing brace"}
                    => diagnostics[k].severity = "Error"
    /\ pc = "loop" => CountMessage(diagnostics, "Unclosed brace") = 0

\* A finished scan with an unmatched '}' followed by a '{' left open
C3_Witness ==
    /\ pc = "done"
    /\ \E a, b \in 1..Len(diagnostics) :
          /\ diagnostics[a].message = "Unmatched closing brace"
          /\ diagnostics[b].message = "Unclosed brace"
          /\ braceStack # <<>>

\* text with every comment line replaced by an empty line
RECURSIVE JoinBlanked(_)
JoinBlanked(ls) ==
    IF Len(ls) = 1 THEN (IF CommentLine(ls[1]) THEN <<>> ELSE ls[1])
    ELSE (IF CommentLine(ls[1]) THEN <<>> ELSE ls[1]) \o <<NL>> \o JoinBlanked(Tail(ls))

\* The diagnostics other than the advisory about a missing page
Findings(diags) == SelectSeq(diags, LAMBDA d : d.severity # "Information")

\* C4 as stated: braces and quotes on comment lines are tracked like those of
\* any other line: every line with an odd number of quotes, comment or not,
\* has an 'Unclosed string' error, and the brace errors reconcile with the
\* braces of the whole text.
C4_AsStated ==
    pc = "done" =>
        /\ \A n \in 0..(Len(lines) - 1) :
              CountChar(lines[n + 1], QUOTE) % 2 = 1 =>
                  \E k \in 1..Len(diagnostics) :
                      diagnostics[k].message = "Unclosed string" /\ diagnostics[k].line = n
        /\ CountMessage(diagnostics, "Unclosed brace")
              - CountMessage(diagnostics, "Unmatched closing brace")
           = CountChar(text, "{") - CountChar(text, "}")

\* C4 amended: comment lines are skipped by every check of the scan, brace
\* and quote tracking included: no error or warning is on a comment line, and
\* the errors and warnings are those of the text with its comment lines
\* emptied.
C4_CommentsSkipped ==
    pc = "done" =>
        /\ \A k \in 1..Len(diagnostics) :
              diagnostics[k].severity # "Information"
                  => ~CommentLine(lines[diagnostics[k].line + 1])
        /\ Findings(diagnostics) = Findings(ScanText(JoinBlanked(lines)))

\* A finished scan of a document with a brace or quote on a comment line and
\* a diagnostic on another line
C4_Witness ==
    /\ pc = "done"
    /\ \E n \in 1..Len(lines) :
          /\ CommentLine(lines[n])
          /\ \E m \in 1..Len(lines[n]) : lines[n][m] \in {"{", "}", QUOTE}
    /\ Findings(diagnostics) # <<>>

\* C5: when exactly two lines start with page there is exactly one 'Only one
\* page component is allowed.' error, on the whole of the second of them;
\* with one such line or none there is no such error.
C5_SecondPage ==
    pc = "done" =>
        LET P == PageLines(lines)
            found == RangesOf(diagnostics, "Only one page component is allowed.")
        IN  /\ Cardinality(P) = 2 => found = << <<Max(P), 0, Len(lines[Max(P) + 1])>> >>
            /\ Cardinality(P) <= 1 => found = <<>>

\* A finished scan of a document with two lines that start with page
C5_Witness == pc = "done" /\ Cardinality(PageLines(lines)) = 2

\* C6: every diagnostic is on a line of the document and its columns satisfy
\* 0 <= start <= end <= length of that line.
C6_RangesInBounds ==
    \A k \in 1..Len(diagnostics) :
        /\ diagnostics[k].line \in 0..(Len(lines) - 1)
        /\ 0 <= diagnostics[k].startCol
        /\ diagnostics[k].startCol <= diagnostics[k].endCol
        /\ diagnostics[k].endCol <= Len(lines[diagnostics[k].line + 1])

\* A finished scan that gave an error, a warning and the advisory
C6_Witness ==
    /\ pc = "done"
    /\ {diagnostics[k].severity : k \in 1..Len(diagnostics)}
          = {"Error", "Warning", "Information"}

-----------------------------------------------------------------------------
(* Escaping of the text shown on an error: the preview panel's error       *)
(* document and the error block of the markdown preview                    *)

RECURSIVE ReplaceAll(_, _, _)
\* String.prototype.replace with a global one-character pattern
ReplaceAll(s, ch, replacement) ==
    IF s = <<>> THEN <<>>
    ELSE (IF Head(s) = ch THEN replacement ELSE <<Head(s)>>)
         \o ReplaceAll(Tail(s), ch, replacement)

AMP == <<"&", "a", "m", "p", ";">>
LT == <<"&", "l", "t", ";">>
GT == <<"&", "g", "t", ";">>
QUOT == <<"&", "q", "u", "o", "t", ";">>
APOS == <<"&", "#", "0", "3", "9", ";">>

\* WireframePreviewPanel.escapeHtml(text)
PanelEscapeHtml(s) ==
    ReplaceAll(ReplaceAll(ReplaceAll(ReplaceAll(ReplaceAll(s,
        "&", AMP), "<", LT), ">", GT), QUOTE, QUOT), "'", APOS)

\* escapeHtml(text) of the extension's entry module
escapeHtml(s) ==
    ReplaceAll(ReplaceAll(ReplaceAll(ReplaceAll(s,
        "&", AMP), "<", LT), ">", GT), QUOTE, QUOT)

\* WireframePreviewPanel.getErrorContent(message): the error document, by
\* the text of its <pre> element
getErrorContent(message) == [kind |-> "error", pre |-> PanelEscapeHtml(message)]

\* The catch of renderWireframeToHtml(code): the error block, by the text
\* after 'Wireframe Error:' and the text of its <code> element
ErrorBlock(message, code) ==
    [kind |-> "error", strong |-> escapeHtml(message), source |-> escapeHtml(code)]

-----------------------------------------------------------------------------
(* The size of the preview.  An attribute the first page may lack is a     *)
(* sequence: empty when undefined, of the one value when defined.          *)

\* Math.round(num / den) for num >= 0, den > 0: halves go up
MathRound(num, den) == (2 * num + den) \div (2 * den)

\* resolveViewport of @wireweave/core: the size of a named viewport or
\* device, and a default size when neither is given
resolveViewport(viewport, device) ==
    IF device = <<"ipad">> THEN [width |-> 768, height |-> 1024]
    ELSE IF viewport = <<"mobile">> THEN [width |-> 375, height |-> 667]
    ELSE [width |-> 1440, height |-> 900]

\* A number that is defined and not zero
Truthy(n) == n # <<>> /\ n[1] # 0

\* The value config.get('previewWidth', 1200) has when the setting is not set
DefaultPreviewWidth == 1200

\* getWebviewContent of the preview panel: the base size; children are the
\* children of the parsed document
getWebviewContent(body, children, previewWidth) ==
    LET firstPage == children[1]
        sized == Len(children) > 0 /\ Truthy(firstPage.width) /\ Truthy(firstPage.height)
        viewport == resolveViewport(firstPage.viewport, firstPage.device)
    IN  [kind |-> "preview", body |-> body,
         baseWidth |-> IF Len(children) = 0 THEN previewWidth
                       ELSE IF sized THEN firstPage.width[1] ELSE viewport.width,
         baseHeight |-> IF Len(children) = 0 THEN MathRound(previewWidth * 3, 4)
                        ELSE IF sized THEN firstPage.height[1] ELSE viewport.height]

\* The width above which the smaller scale is taken
ScaleThreshold == 800

\* fixedScale that takes the smaller scale from the threshold on
fixedScale_AtLeast(baseWidth) == IF baseWidth >= ScaleThreshold THEN 5 ELSE 8

\* baseWidth > 800 ? 0.5 : 0.8, in tenths
fixedScale(baseWidth) == IF baseWidth > ScaleThreshold THEN 5 ELSE 8

\* getWebviewContent of src/preview.ts, the fixed-scale preview panel: the
\* base size, the scale in tenths and the scaled size
FixedScaleWebviewContent(body, children, previewWidth) ==
    LET firstPage == children[1]
        named == Len(children) > 0 /\ (firstPage.viewport # <<>> \/ firstPage.device # <<>>)
        viewport == resolveViewport(firstPage.viewport, firstPage.device)
        baseWidth == IF named THEN viewport.width ELSE previewWidth
        baseHeight == IF named THEN viewport.height ELSE MathRound(previewWidth * 3, 4)
    IN  [kind |-> "preview", body |-> body,
         baseWidth |-> baseWidth, baseHeight |-> baseHeight,
         fixedScale |-> fixedScale(baseWidth),
         scaledWidth |-> MathRound(baseWidth * fixedScale(baseWidth), 10),
         scaledHeight |-> MathRound(baseHeight * fixedScale(baseWidth), 10)]

\* renderWireframeToHtml of the markdown preview, when parse and render
\* succeed: the base size, the scale in tenths and the scaled width
EmbedContent(body, children) ==
    LET firstPage == children[1]
        sized == Len(children) > 0 /\ Truthy(firstPage.width) /\ Truthy(firstPage.height)
        viewport == IF Len(children) > 0
                    THEN resolveViewport(firstPage.viewport, firstPage.device)
                    ELSE resolveViewport(<<>>, <<>>)
        baseWidth == IF sized THEN firstPage.width[1] ELSE viewport.width
        baseHeight == IF sized THEN firstPage.height[1] ELSE viewport.height
        maxScale == IF baseWidth > ScaleThreshold THEN 5 ELSE 8
    IN  [kind |-> "embed", body |-> body,
         baseWidth |-> baseWidth, baseHeight |-> baseHeight,
         maxScale |-> maxScale,
         scaledWidth |-> MathRound(baseWidth * maxScale, 10)]

-----------------------------------------------------------------------------
(* The workspace: documents are opened, changed and closed, and the        *)
(* handlers registerLanguageFeatures subscribes keep diagnosticCollection  *)

\* The documents of the workspace and their language ids
Uris == {"a.wf", "b.wf", "n.md"}

languageId(uri) == IF uri \in {"a.wf", "b.wf"} THEN "wireframe" ELSE "markdown"

DocFrags == {pageName, <<"}">>, <<NL>>}

DocTexts == FragTexts(DocFrags, MaxDocFrags)

ClosedDocument == [open |-> FALSE, text |-> <<>>]
OpenDocument(txt) == [open |-> TRUE, text |-> txt]

NoEntry == [has |-> FALSE, diagnostics |-> <<>>]
Entry(diags) == [has |-> TRUE, diagnostics |-> diags]

\* validateDocument(document): the collection it leaves
validateDocument(collection, uri, txt) ==
    IF languageId(uri) # "wireframe" THEN collection
    ELSE [collection EXCEPT ![uri] = Entry(ScanText(txt))]

\* vscode.workspace.textDocuments.forEach(validateDocument) on an empty collection
ValidateOpenDocuments(docs) ==
    [uri \in Uris |->
        IF docs[uri].open
        THEN validateDocument([u \in Uris |-> NoEntry], uri, docs[uri].text)[uri]
        ELSE NoEntry]

-----------------------------------------------------------------------------
(* The preview panel.  parse, render and renderToHtml are @wireweave/core: *)
(* a call returns or throws, and which is told by the source alone.        *)

\* The message of the error parse throws
ParseMessage == <<"E", "x", "p", "e", "c", "t", "e", "d", " ", QUOTE, "p", "a", "g", "e", QUOTE>>

\* The message of the error render throws
RenderMessage == <<"C", "a", "n", "'", "t", " ", "r", "e", "n", "d", "e", "r", " ", "<", "}", ">">>

\* A page that declares nothing
PlainPage == [width |-> <<>>, height |-> <<>>, viewport |-> <<>>, device |-> <<>>]

\* parse(source): throws on a source that does not start with a page
parse(source) ==
    IF StartsWith(Trim(source), pageName)
    THEN [throws |-> FALSE, message |-> <<>>, source |-> source, children |-> <<PlainPage>>]
    ELSE [throws |-> TRUE, message |-> ParseMessage, source |-> source, children |-> <<>>]

\* render(ast, options) and renderToHtml(ast): throw on a page that holds a
\* closing brace; the markup returned is told by the source it renders
render(ast) ==
    IF \E k \in 1..Len(ast.source) : ast.source[k] = "}"
    THEN [throws |-> TRUE, message |-> RenderMessage, body |-> <<>>]
    ELSE [throws |-> FALSE, message |-> <<>>, body |-> ast.source]

\* showWelcome(): the welcome page
Welcome == [kind |-> "welcome"]

\* What a call leaves: the panel's webview.html, and whether it threw
Completed(content) == [html |-> content, thrown |-> FALSE]
Thrown(content) == [html |-> content, thrown |-> TRUE]

\* updateContent whose try has no catch: the error leaves the callback and
\* the panel keeps the content it had
updateContent_NoCatch(webviewHtml, source) ==
    IF Trim(source) = <<>> THEN Completed(Welcome)
    ELSE LET ast == parse(source)
         IN  IF ast.throws THEN Thrown(webviewHtml)
             ELSE IF render(ast).throws THEN Thrown(webviewHtml)
             ELSE Completed(getWebviewContent(render(ast).body, ast.children,
                                              DefaultPreviewWidth))

\* updateContent(document), on a panel whose webview.html is webviewHtml
updateContent(webviewHtml, source) ==
    IF Trim(source) = <<>> THEN Completed(Welcome)
    ELSE LET ast == parse(source)
         IN  IF ast.throws THEN Completed(getErrorContent(ast.message))
             ELSE IF render(ast).throws THEN Completed(getErrorContent(render(ast).message))
             ELSE Completed(getWebviewContent(render(ast).body, ast.children,
                                              DefaultPreviewWidth))

\* The document of an editor is a wireframe document
IsWireframeEditor(editor) == editor # "none" /\ languageId(editor) = "wireframe"

\* new WireframePreviewPanel(panel, extensionUri): the initial content
InitialContent(docs, editor) ==
    IF IsWireframeEditor(editor) THEN updateContent(<<>>, docs[editor].text)
    ELSE Completed(Welcome)

\* WireframePreviewPanel.update(document): the panel's content afterwards
update(hasPanel, webviewHtml, source) ==
    IF hasPanel THEN updateContent(webviewHtml, source) ELSE Completed(webviewHtml)

\* createOrShow that does not look at the reference: a panel is created
\* at every call
createOrShow_AlwaysCreates(reference, live) ==
    [currentPanel |-> TRUE, panels |-> live + 1, created |-> TRUE]

\* WireframePreviewPanel.createOrShow(extensionUri, position): the reference
\* and the live panels afterwards, and whether a panel was created; an
\* existing panel is revealed
createOrShow(reference, live) ==
    IF reference
    THEN [currentPanel |-> TRUE, panels |-> live, created |-> FALSE]
    ELSE [currentPanel |-> TRUE, panels |-> live + 1, created |-> TRUE]

\* export that throws the error of parse or renderToHtml as it is
export_Unlabelled(source) ==
    LET ast == parse(source)
    IN  IF ast.throws
        THEN [throws |-> TRUE, message |-> <<ast.message>>, content |-> <<>>]
        ELSE IF render(ast).throws
        THEN [throws |-> TRUE, message |-> <<render(ast).message>>, content |-> <<>>]
        ELSE [throws |-> FALSE, message |-> <<>>, content |-> render(ast).body]

\* WireframePreviewPanel.export(document): the markup of the document, or
\* an error whose message is 'Parse error: ' and the message of the failure
export(source) ==
    LET ast == parse(source)
    IN  IF ast.throws
        THEN [throws |-> TRUE, message |-> <<"Parse error: ", ast.message>>, content |-> <<>>]
        ELSE IF render(ast).throws
        THEN [throws |-> TRUE, message |-> <<"Parse error: ", render(ast).message>>,
              content |-> <<>>]
        ELSE [throws |-> FALSE, message |-> <<>>, content |-> render(ast).body]

\* The message of the error workspace.fs.writeFile throws
WriteMessage == <<"E", "A", "C", "C", "E", "S">>

\* showErrorMessage and showInformationMessage: the message, in its parts
ErrorMessage(parts) == [kind |-> "error", message |-> parts]
InformationMessage(parts) == [kind |-> "information", message |-> parts]

\* After registerLanguageFeatures: the documents already open are validated
Init ==
    /\ textDocuments \in [Uris -> {ClosedDocument} \cup {OpenDocument(t) : t \in DocTexts}]
    /\ diagnosticCollection = ValidateOpenDocuments(textDocuments)
    /\ lastEvent = "activate"
    /\ ScanIdle
    /\ CompletionIdle
    /\ HostIdle
    /\ ExportIdle
    /\ CallIdle

\* The open handlers with the timer set whatever the autoPreview setting
DidOpenTextDocument_AlwaysTimer(uri, txt) ==
    /\ ~textDocuments[uri].open
    /\ languageId(uri) = "wireframe" => timers < MaxTimers
    /\ textDocuments' = [textDocuments EXCEPT ![uri] = OpenDocument(txt)]
    /\ diagnosticCollection' = validateDocument(diagnosticCollection, uri, txt)
    /\ timers' = IF languageId(uri) = "wireframe" THEN timers + 1 ELSE timers
    /\ lastEvent' = "open"
    /\ UNCHANGED <<activeTextEditor, autoPreview, panels, currentPanel, html, visible,
                   uncaught>>
    /\ UNCHANGED <<scanVars, completionVars, exportVars, callVars>>

\* The open handlers: validateDocument, and with autoPreview the handler
\* that sets a timer for the previewToSide command
DidOpenTextDocument(uri, txt) ==
    /\ ~textDocuments[uri].open
    /\ (autoPreview /\ languageId(uri) = "wireframe") => timers < MaxTimers
    /\ textDocuments' = [textDocuments EXCEPT ![uri] = OpenDocument(txt)]
    /\ diagnosticCollection' = validateDocument(diagnosticCollection, uri, txt)
    /\ timers' = IF autoPreview /\ languageId(uri) = "wireframe" THEN timers + 1 ELSE timers
    /\ lastEvent' = "open"
    /\ UNCHANGED <<activeTextEditor, autoPreview, panels, currentPanel, html, visible,
                   uncaught>>
    /\ UNCHANGED <<scanVars, completionVars, exportVars, callVars>>

\* The change handlers, validateDocument given the text the document had
\* before the change
DidChangeTextDocument_StaleText(uri, txt) ==
    /\ textDocuments[uri].open
    /\ textDocuments' = [textDocuments EXCEPT ![uri] = OpenDocument(txt)]
    /\ diagnosticCollection' =
          validateDocument(diagnosticCollection, uri, textDocuments[uri].text)
    /\ LET after == IF languageId(uri) = "wireframe"
                    THEN update(currentPanel, html, txt) ELSE Completed(html)
       IN  /\ html' = after.html
           /\ uncaught' = (uncaught \/ after.thrown)
    /\ lastEvent' = "change"
    /\ UNCHANGED <<activeTextEditor, autoPreview, timers, panels, currentPanel, visible>>
    /\ UNCHANGED <<scanVars, completionVars, exportVars, callVars>>

\* The change handlers with the panel updated only for the document of the
\* active editor
DidChangeTextDocument_ActiveEditorOnly(uri, txt) ==
    /\ textDocuments[uri].open
    /\ textDocuments' = [textDocuments EXCEPT ![uri] = OpenDocument(txt)]
    /\ diagnosticCollection' = validateDocument(diagnosticCollection, uri, txt)
    /\ LET after == IF languageId(uri) = "wireframe" /\ uri = activeTextEditor
                    THEN update(currentPanel, html, txt) ELSE Completed(html)
       IN  /\ html' = after.html
           /\ uncaught' = (uncaught \/ after.thrown)
    /\ lastEvent' = "change"
    /\ UNCHANGED <<activeTextEditor, autoPreview, timers, panels, currentPanel, visible>>
    /\ UNCHANGED <<scanVars, completionVars, exportVars, callVars>>

\* The change handlers: validateDocument(e.document), and
\* WireframePreviewPanel.update(e.document) for a wireframe document
DidChangeTextDocument(uri, txt) ==
    /\ textDocuments[uri].open
    /\ textDocuments' = [textDocuments EXCEPT ![uri] = OpenDocument(txt)]
    /\ diagnosticCollection' = validateDocument(diagnosticCollection, uri, txt)
    /\ LET after == IF languageId(uri) = "wireframe"
                    THEN update(currentPanel, html, txt) ELSE Completed(html)
       IN  /\ html' = after.html
           /\ uncaught' = (uncaught \/ after.thrown)
    /\ lastEvent' = "change"
    /\ UNCHANGED <<activeTextEditor, autoPreview, timers, panels, currentPanel, visible>>
    /\ UNCHANGED <<scanVars, completionVars, exportVars, callVars>>

\* diagnosticCollection.delete(doc.uri)
DeleteEntry(collection, uri) == [collection EXCEPT ![uri] = NoEntry]

\* The close handler: diagnosticCollection.delete(doc.uri).  The editor of
\* the document goes with it; the handler of the editor change does nothing
\* when no editor is left active.  A document the save dialog of an export
\* is open for stays open.
DidCloseTextDocument(uri) ==
    /\ textDocuments[uri].open
    /\ exportState = "idle" \/ exportDocument # uri
    /\ textDocuments' = [textDocuments EXCEPT ![uri] = ClosedDocument]
    /\ diagnosticCollection' = DeleteEntry(diagnosticCollection, uri)
    /\ activeTextEditor' = IF activeTextEditor = uri THEN "none" ELSE activeTextEditor
    /\ lastEvent' = "close"
    /\ UNCHANGED <<autoPreview, timers, panels, currentPanel, html, visible, uncaught>>
    /\ UNCHANGED <<scanVars, completionVars, exportVars, callVars>>

Next ==
    \/ \E uri \in Uris, txt \in DocTexts : DidOpenTextDocument(uri, txt)
    \/ \E uri \in Uris, txt \in DocTexts : DidChangeTextDocument(uri, txt)
    \/ \E uri \in Uris : DidCloseTextDocument(uri)

Spec == Init /\ [][Next]_vars

\* C7: the diagnostics collection holds, for every open wireframe document,
\* exactly the scan of the document's current text, and no entry for a
\* wireframe document that is closed.
C7_CollectionFollowsText ==
    \A uri \in Uris :
        languageId(uri) = "wireframe" =>
            diagnosticCollection[uri] =
                IF textDocuments[uri].open
                THEN Entry(ScanText(textDocuments[uri].text))
                ELSE NoEntry

\* After a change event: an open wireframe document whose entry has a
\* diagnostic, next to a closed one
C7_Witness ==
    /\ lastEvent = "change"
    /\ textDocuments["a.wf"].open
    /\ diagnosticCollection["a.wf"].diagnostics # <<>>
    /\ ~textDocuments["b.wf"].open

-----------------------------------------------------------------------------
(* findParentComponent and provideCompletionItems *)

\* null, the value of a parent component that was not found
Null == <<>>

RECURSIVE ScanBack_IgnoreClosing(_, _, _, _)
\* ScanBack that does not count the closing braces: the nearest opening
\* brace is taken, matched or not
ScanBack_IgnoreClosing(doc, ln, col, braceCount) ==
    IF ln < 0 THEN Null
    ELSE IF col < 0
    THEN ScanBack_IgnoreClosing(doc, ln - 1, IF ln >= 1 THEN Len(doc[ln]) - 1 ELSE -1,
                                braceCount)
    ELSE LET lineText == doc[ln + 1]
         IN  IF lineText[col + 1] = "{"
             THEN LET beforeBrace == Substring(lineText, 0, col)
                  IN  IF TrailingFound(beforeBrace)
                      THEN TrailingName(beforeBrace) ELSE Null
             ELSE ScanBack_IgnoreClosing(doc, ln, col - 1, braceCount)

RECURSIVE ScanBack_PastBareBrace(_, _, _, _)
\* ScanBack that goes on to the next opening brace outward when no
\* identifier precedes the one it found
ScanBack_PastBareBrace(doc, ln, col, braceCount) ==
    IF ln < 0 THEN Null
    ELSE IF col < 0
    THEN ScanBack_PastBareBrace(doc, ln - 1, IF ln >= 1 THEN Len(doc[ln]) - 1 ELSE -1,
                                braceCount)
    ELSE LET lineText == doc[ln + 1]
         IN  IF lineText[col + 1] = "}"
             THEN ScanBack_PastBareBrace(doc, ln, col - 1, braceCount + 1)
             ELSE IF lineText[col + 1] = "{"
             THEN IF braceCount - 1 < 0
                  THEN LET beforeBrace == Substring(lineText, 0, col)
                       IN  IF TrailingFound(beforeBrace)
                           THEN TrailingName(beforeBrace)
                           ELSE ScanBack_PastBareBrace(doc, ln, col - 1, 0)
                  ELSE ScanBack_PastBareBrace(doc, ln, col - 1, braceCount - 1)
             ELSE ScanBack_PastBareBrace(doc, ln, col - 1, braceCount)

RECURSIVE ScanBack(_, _, _, _)
\* The loops of findParentComponent from column col of line ln backward,
\* with braceCount as it stands
ScanBack(doc, ln, col, braceCount) ==
    IF ln < 0 THEN Null
    ELSE IF col < 0
    THEN ScanBack(doc, ln - 1, IF ln >= 1 THEN Len(doc[ln]) - 1 ELSE -1, braceCount)
    ELSE LET lineText == doc[ln + 1]
         IN  IF lineText[col + 1] = "}"
             THEN ScanBack(doc, ln, col - 1, braceCount + 1)
             ELSE IF lineText[col + 1] = "{"
             THEN IF braceCount - 1 < 0
                  THEN LET beforeBrace == Substring(lineText, 0, col)
                       IN  IF TrailingFound(beforeBrace)
                           THEN TrailingName(beforeBrace) ELSE Null
                  ELSE ScanBack(doc, ln, col - 1, braceCount - 1)
             ELSE ScanBack(doc, ln, col - 1, braceCount)

\* findParentComponent(document, position)
findParentComponent(doc, pos) == ScanBack(doc, pos.line, pos.character - 1, 0)

\* s.match(/(\w+)\s*=\s*$/): the 1-based index of the '=' of the match, 0 if none
ValueEquals(s) ==
    LET keep == {m \in 1..Len(s) : ~IsSpace(s[m])}
    IN  IF keep # {} /\ s[Max(keep)] = "=" THEN Max(keep) ELSE 0

\* The 1-based index of the last character of the word before the '=', 0 if none
ValueWordEnd(s) ==
    LET keep == {m \in 1..(ValueEquals(s) - 1) : ~IsSpace(s[m])}
    IN  IF keep # {} /\ IsWord(s[Max(keep)]) THEN Max(keep) ELSE 0

\* attrMatch is found
AttrMatchFound(s) == ValueEquals(s) > 0 /\ ValueWordEnd(s) > 0

\* attrMatch[1]: the whole word, the leftmost match
AttrMatchName(s) ==
    LET e == ValueWordEnd(s)
        k == Min({m \in 1..e : \A x \in m..e : IsWord(s[x])})
    IN  SubSeq(s, k, e)

\* s.match(/^\s*$/) || s.match(/\{\s*$/)
StructuralPosition(s) ==
    LET keep == {m \in 1..Len(s) : ~IsSpace(s[m])}
    IN  keep = {} \/ s[Max(keep)] = "{"

\* s.match(/(\w+)(?:\s+"[^"]*")?\s+(\w*)$/) tried at the word starting at k
AfterComponentAt(s, k) ==
    LET e == WordEnd(s, k)
        q == SpaceEnd(s, e)
        close == {m \in (q + 1)..Len(s) : s[m] = QUOTE}
    IN  /\ q > e
        /\ \/ WordEnd(s, q) = Len(s) + 1
           \/ /\ q <= Len(s)
              /\ s[q] = QUOTE
              /\ close # {}
              /\ SpaceEnd(s, Min(close) + 1) > Min(close) + 1
              /\ WordEnd(s, SpaceEnd(s, Min(close) + 1)) = Len(s) + 1

\* componentMatch is found
AfterComponentFound(s) == \E k \in WordStarts(s) : AfterComponentAt(s, k)

\* componentMatch[1]: the leftmost match wins
AfterComponentName(s) ==
    LET k == Min({m \in WordStarts(s) : AfterComponentAt(s, m)})
    IN  SubSeq(s, k, WordEnd(s, k) - 1)

Digits == <<"0", "1", "2", "3", "4", "5", "6", "7", "8", "9">>

RECURSIVE NumberToString(_)
\* String(n) of a natural number
NumberToString(n) ==
    IF n < 10 THEN <<Digits[n + 1]>>
    ELSE NumberToString(n \div 10) \o <<Digits[(n % 10) + 1]>>

\* Suggest common numbers
CommonNumbers == <<1, 2, 3, 4, 5, 6, 8, 10, 12, 16, 24, 32>>

\* new vscode.CompletionItem(label, kind) with the fields the provider sets:
\* detail is <<text>> or <<text, name>>, recommended says that detail ends
\* with (recommended), insertText names the snippet, sortText is
\* <<prefix, name>> or <<>> when unset
CompletionItem(label, kind, detail, recommended, insertText, sortText) ==
    [label |-> label, kind |-> kind, detail |-> detail, recommended |-> recommended,
     insertText |-> insertText, sortText |-> sortText]

\* ValueItems without the return that follows: the default items are added
ValueItems_FallThrough(attrName) ==
    [k \in 1..Len(getAttribute(attrName).literals) |->
        [label |-> getAttribute(attrName).literals[k], kind |-> "EnumMember",
         detail |-> <<"value for", attrName>>, recommended |-> FALSE,
         insertText |-> "none", sortText |-> <<>>]]
    \o [k \in 1..Len(ATTRIBUTES) |->
        [label |-> ATTRIBUTES[k].name, kind |-> "Property",
         detail |-> <<ATTRIBUTES[k].values>>, recommended |-> FALSE,
         insertText |-> "none", sortText |-> <<>>]]

\* After '=' - suggest values: one item per literal of the enumerated attribute
ValueItems(attrName) ==
    LET values == getAttribute(attrName).literals
    IN  [k \in 1..Len(values) |->
            CompletionItem(values[k], "EnumMember", <<"value for", attrName>>, FALSE,
                           "none", <<>>)]

\* Suggest common numbers
NumberItems ==
    [k \in 1..Len(CommonNumbers) |->
        CompletionItem(NumberToString(CommonNumbers[k]), "Value", <<"number">>, FALSE,
                       "none", <<>>)]

\* StructuralItems without the root-level rule: with no parent every
\* component is valid
StructuralItems_NoRootRule(doc, pos) ==
    LET parentComponent == findParentComponent(doc, pos)
        validChildren == IF parentComponent # Null
                         THEN getValidChildren(parentComponent) ELSE <<>>
        validChildNames == {validChildren[k].name : k \in 1..Len(validChildren)}
        isValidInContext(comp) == validChildNames = {} \/ comp.name \in validChildNames
    IN  [k \in 1..Len(ALL_COMPONENTS) |->
            LET comp == ALL_COMPONENTS[k]
            IN  CompletionItem(comp.name,
                    IF isValidInContext(comp) THEN "Class" ELSE "Reference",
                    <<getCategoryLabel(comp.category)>>,
                    isValidInContext(comp),
                    IF comp.hasChildren THEN "block" ELSE "none",
                    <<IF isValidInContext(comp) THEN "0_" ELSE "1_", comp.name>>)]

\* StructuralItems without the permissive default: a parent that names no
\* valid children accepts none
StructuralItems_StrictChildren(doc, pos) ==
    LET parentComponent == findParentComponent(doc, pos)
        validChildren == IF parentComponent # Null
                         THEN getValidChildren(parentComponent) ELSE <<>>
        validChildNames == {validChildren[k].name : k \in 1..Len(validChildren)}
        isRootLevel == parentComponent = Null
        isValidInContext(comp) ==
            IF isRootLevel THEN comp.name = pageName
            ELSE comp.name \in validChildNames
    IN  [k \in 1..Len(ALL_COMPONENTS) |->
            LET comp == ALL_COMPONENTS[k]
            IN  CompletionItem(comp.name,
                    IF isValidInContext(comp) THEN "Class" ELSE "Reference",
                    <<getCategoryLabel(comp.category)>>,
                    isValidInContext(comp),
                    IF comp.hasChildren THEN "block" ELSE "none",
                    <<IF isValidInContext(comp) THEN "0_" ELSE "1_", comp.name>>)]

\* At the start of line or after { - suggest components
StructuralItems(doc, pos) ==
    LET parentComponent == findParentComponent(doc, pos)
        validChildren == IF parentComponent # Null
                         THEN getValidChildren(parentComponent) ELSE <<>>
        validChildNames == {validChildren[k].name : k \in 1..Len(validChildren)}
        isRootLevel == parentComponent = Null
        isValidInContext(comp) ==
            IF isRootLevel THEN comp.name = pageName
            ELSE validChildNames = {} \/ comp.name \in validChildNames
    IN  [k \in 1..Len(ALL_COMPONENTS) |->
            LET comp == ALL_COMPONENTS[k]
            IN  CompletionItem(comp.name,
                    IF isValidInContext(comp) THEN "Class" ELSE "Reference",
                    <<getCategoryLabel(comp.category)>>,
                    isValidInContext(comp),
                    IF comp.hasChildren THEN "block" ELSE "none",
                    <<IF isValidInContext(comp) THEN "0_" ELSE "1_", comp.name>>)]

\* The snippet of an attribute item: by the attribute's value domain
AttributeSnippet(attr) ==
    IF attr.values = "string" THEN "quoted"
    ELSE IF attr.values \in {"number", "enum"} THEN "bare"
    ELSE "none"

\* AttributeItems that takes no notice of the component: every attribute of
\* the table is offered
AttributeItems_EveryAttribute(attrs) ==
    [k \in 1..Len(ATTRIBUTES) |->
        CompletionItem(ATTRIBUTES[k].name, "Property", <<ATTRIBUTES[k].values>>, FALSE,
                       AttributeSnippet(ATTRIBUTES[k]), <<>>)]

\* After component name - suggest attributes
AttributeItems(attrs) ==
    [k \in 1..Len(attrs) |->
        CompletionItem(attrs[k].name, "Property", <<attrs[k].values>>, FALSE,
                       AttributeSnippet(attrs[k]), <<>>)]

\* Default: suggest all components and attributes
DefaultItems ==
    [k \in 1..Len(ALL_COMPONENTS) |->
        CompletionItem(ALL_COMPONENTS[k].name, "Class",
                       <<getCategoryLabel(ALL_COMPONENTS[k].category)>>, FALSE,
                       IF ALL_COMPONENTS[k].hasChildren THEN "block" ELSE "none", <<>>)]
    \o [k \in 1..Len(ATTRIBUTES) |->
        CompletionItem(ATTRIBUTES[k].name, "Property", <<ATTRIBUTES[k].values>>, FALSE,
                       "none", <<>>)]

\* provideCompletionItems(document, position)
provideCompletionItems(doc, pos) ==
    LET lineText == doc[pos.line + 1]
        textUntilPosition == Substring(lineText, 0, pos.character)
    IN  IF /\ AttrMatchFound(textUntilPosition)
           /\ getAttribute(AttrMatchName(textUntilPosition)).values = "enum"
        THEN ValueItems(AttrMatchName(textUntilPosition))
        ELSE IF /\ AttrMatchFound(textUntilPosition)
                /\ getAttribute(AttrMatchName(textUntilPosition)).values = "number"
        THEN NumberItems
        ELSE IF StructuralPosition(textUntilPosition)
        THEN StructuralItems(doc, pos)
        ELSE IF AfterComponentFound(textUntilPosition)
        THEN IF HasComponent(AfterComponentName(textUntilPosition))
             THEN AttributeItems(getComponentAttributes(AfterComponentName(textUntilPosition)))
             ELSE AttributeItems(ATTRIBUTES)
        ELSE DefaultItems

-----------------------------------------------------------------------------
(* Completion asked at every position of the documents made of at most     *)
(* MaxCompletionFrags of these fragments, and of some longer ones          *)

CompletionFrags ==
    {rowName, justifyName, gapName, altName, <<"z", "z">>, SP, <<"=">>, OPEN, CLOSE, LF}

CompletionSamples ==
    { \* row justify=
      Concat(<<rowName, SP, justifyName, <<"=">>>>),
      \* page {  row gap = 
      Concat(<<pageName, SP, OPEN, LF, SP, rowName, SP, gapName, SP, <<"=">>, SP>>),
      \* page { button "b" alt=
      Concat(<<pageName, SP, OPEN, SP, buttonName, SP, <<QUOTE, "b", QUOTE>>, SP,
               altName, <<"=">>>>),
      \* page "a" {  row { }  button "b c" al
      Concat(<<pageName, SP, <<QUOTE, "a", QUOTE>>, SP, OPEN, LF, rowName, SP, OPEN, SP,
               CLOSE, LF, buttonName, SP, <<QUOTE, "b", " ", "c", QUOTE>>, SP,
               <<"a", "l">>>>),
      \* row { button "x" {  } zz"q" {
      Concat(<<rowName, SP, OPEN, SP, buttonName, SP, <<QUOTE, "x", QUOTE>>, SP, OPEN, LF,
               CLOSE, SP, <<"z", "z", QUOTE, "q", QUOTE>>, SP, OPEN, SP>>),
      \* row {  {  with the second brace alone on its line
      Concat(<<rowName, SP, OPEN, LF, SP, OPEN, LF, SP>>) }

CompletionTexts == FragTexts(CompletionFrags, MaxCompletionFrags) \cup CompletionSamples

\* The positions of a document: every column of every line, the end included
Positions(doc) ==
    {[line |-> ln, character |-> ch] :
        ln \in 0..(Len(doc) - 1), ch \in 0..Max({Len(doc[n]) : n \in 1..Len(doc)})}

InitCompletion ==
    /\ document \in {Split(t) : t \in CompletionTexts}
    /\ position \in {pos \in Positions(document) :
                        pos.character <= Len(document[pos.line + 1])}
    /\ items = <<>>
    /\ parentFound = <<>>
    /\ cpc = "ready"
    /\ ScanIdle
    /\ WorkspaceIdle
    /\ HostIdle
    /\ ExportIdle
    /\ CallIdle

\* The host asks for the completion items at the cursor
ProvideCompletionItems ==
    /\ cpc = "ready"
    /\ items' = provideCompletionItems(document, position)
    /\ cpc' = "done"
    /\ UNCHANGED <<document, position, parentFound, scanVars, workspaceVars, hostVars, exportVars, callVars>>

\* findParentComponent is called at the cursor
FindParentComponent ==
    /\ cpc = "ready"
    /\ parentFound' = findParentComponent(document, position)
    /\ cpc' = "found"
    /\ UNCHANGED <<document, position, items, scanVars, workspaceVars, hostVars, exportVars, callVars>>

NextCompletion == ProvideCompletionItems \/ FindParentComponent

SpecCompletion == InitCompletion /\ [][NextCompletion]_vars

\* The text from the start of the cursor line to the cursor
TextToCursor == SubSeq(document[position.line + 1], 1, position.character)

\* The identifiers s ends with in value position: s is an identifier that
\* no identifier character precedes, optional whitespace, '=', optional
\* whitespace
ValueContext(s) ==
    {SubSeq(s, p[1], p[2]) :
        p \in {q \in (1..Len(s)) \X (1..Len(s)) :
                  /\ q[1] <= q[2]
                  /\ \A m \in q[1]..q[2] : s[m] \in WordChars
                  /\ q[1] = 1 \/ s[q[1] - 1] \notin WordChars
                  /\ \E c \in (q[2] + 1)..Len(s) :
                        /\ s[c] = "="
                        /\ \A m \in (q[2] + 1)..(c - 1) : s[m] \in SpaceChars
                        /\ \A m \in (c + 1)..Len(s) : s[m] \in SpaceChars}}

\* The attributes of each value domain, read off the table
AttributesOf(domain) ==
    {ATTRIBUTES[k].name : k \in {m \in 1..Len(ATTRIBUTES) : ATTRIBUTES[m].values = domain}}

LiteralsOf(attrName) ==
    LET def == ATTRIBUTES[CHOOSE k \in 1..Len(ATTRIBUTES) : ATTRIBUTES[k].name = attrName]
    IN  {def.literals[k] : k \in 1..Len(def.literals)}

Labels(its) == {its[k].label : k \in 1..Len(its)}

\* C8: in value position of an attribute with an enumerated domain, the
\* result is exactly the literals of the attribute, one item each.
C8_EnumValues ==
    cpc = "done" =>
        \A id \in ValueContext(TextToCursor) :
            id \in AttributesOf("enum") =>
                /\ Labels(items) = LiteralsOf(id)
                /\ Len(items) = Cardinality(LiteralsOf(id))
                /\ \A k \in 1..Len(items) : items[k].kind = "EnumMember"

\* Completion was given after 'row justify=': start, center, end
C8_Witness ==
    /\ cpc = "done"
    /\ TextToCursor = Concat(<<rowName, SP, justifyName, <<"=">>>>)
    /\ Len(items) = 3

\* The curated integers, as the labels they are offered under
CommonNumberLabels ==
    { <<"1">>, <<"2">>, <<"3">>, <<"4">>, <<"5">>, <<"6">>, <<"8">>, <<"1", "0">>,
      <<"1", "2">>, <<"1", "6">>, <<"2", "4">>, <<"3", "2">> }

\* An item that offers a component or an attribute
OffersName(item) == item.kind \in {"Class", "Reference", "Property"}

\* C9: in value position, a numeric attribute gives exactly the common
\* integers, and a string-typed or unknown attribute gives no component and
\* no attribute.
C9_AsStated ==
    cpc = "done" =>
        \A id \in ValueContext(TextToCursor) :
            /\ id \in AttributesOf("number") =>
                  Labels(items) = CommonNumberLabels /\ Len(items) = 12
            /\ (id \in AttributesOf("string") \/ id \notin AttributeNames) =>
                  \A k \in 1..Len(items) : ~OffersName(items[k])

\* C10 as stated: in an empty document the only component offered at (0,0)
\* is page, and it is marked recommended.
C10_AsStated ==
    (cpc = "done" /\ document = << <<>> >>) =>
        /\ \A k \in 1..Len(items) : items[k].label \in ComponentNames => items[k].label = pageName
        /\ \E k \in 1..Len(items) : items[k].label = pageName /\ items[k].recommended

\* C10 amended: in an empty document, at (0,0), every component is offered
\* exactly once and nothing else is; page is the only item marked
\* recommended, and it sorts before the others.
C10_EmptyDocument ==
    (cpc = "done" /\ document = << <<>> >>) =>
        /\ Labels(items) = ComponentNames
        /\ Len(items) = Cardinality(ComponentNames)
        /\ \A k \in 1..Len(items) :
              /\ items[k].recommended <=> items[k].label = pageName
              /\ items[k].kind = IF items[k].label = pageName THEN "Class" ELSE "Reference"
              /\ items[k].sortText[1] = IF items[k].label = pageName THEN "0_" ELSE "1_"

\* Completion was given in the empty document
C10_Witness ==
    /\ cpc = "done"
    /\ document = << <<>> >>
    /\ position = [line |-> 0, character |-> 0]
    /\ items # <<>>

-----------------------------------------------------------------------------
(* The enclosing component of the cursor, told from the text alone *)

\* The braces before the cursor in reading order, as <<line, column, char>>:
\* the whole lines above the cursor line, the columns before the cursor on it
BracesToCursor(doc, pos) ==
    LET upTo(n) == IF n = pos.line THEN pos.character ELSE Len(doc[n + 1])
        RECURSIVE from(_, _)
        from(n, col) ==
            IF n > pos.line THEN <<>>
            ELSE IF col >= upTo(n) THEN from(n + 1, 0)
            ELSE IF doc[n + 1][col + 1] \in {"{", "}"}
                 THEN <<<<n, col, doc[n + 1][col + 1]>>>> \o from(n, col + 1)
                 ELSE from(n, col + 1)
    IN  from(0, 0)

\* The opening braces before the cursor that no closing brace between them
\* and the cursor matches, as indices of BracesToCursor
OpenAtCursor(doc, pos) ==
    LET bs == BracesToCursor(doc, pos)
    IN  {k \in 1..Len(bs) : IsUnclosed(bs, k)}

\* s[a..b] is an identifier that nothing but white space and at most one
\* quoted string separates from the end of s
IsTrailingIdentifier(s, a, b) ==
    /\ \A m \in a..b : IsWord(s[m])
    /\ a = 1 \/ ~IsWord(s[a - 1])
    /\ \/ \A m \in (b + 1)..Len(s) : IsSpace(s[m])
       \/ \E x, y \in (b + 2)..Len(s) :
            /\ x < y
            /\ s[x] = QUOTE /\ s[y] = QUOTE
            /\ \A m \in (b + 1)..(x - 1) : IsSpace(s[m])
            /\ \A m \in (x + 1)..(y - 1) : s[m] # QUOTE
            /\ \A m \in (y + 1)..Len(s) : IsSpace(s[m])

\* The first such identifier of s, Null when there is none
TrailingIdentifier(s) ==
    LET found == {ab \in (1..Len(s)) \X (1..Len(s)) :
                     ab[1] <= ab[2] /\ IsTrailingIdentifier(s, ab[1], ab[2])}
    IN  IF found = {} THEN Null
        ELSE LET ab == CHOOSE c \in found : \A d \in found : c[1] <= d[1]
             IN  SubSeq(s, ab[1], ab[2])

\* The identifier before the nearest unmatched opening brace, Null when every
\* opening brace is matched, there is none, or no identifier precedes it
Enclosing(doc, pos) ==
    LET bs == BracesToCursor(doc, pos)
        open == OpenAtCursor(doc, pos)
    IN  IF open = {} THEN Null
        ELSE LET b == bs[Max(open)]
             IN  TrailingIdentifier(SubSeq(doc[b[1] + 1], 1, b[2]))

\* C13: findParentComponent returns the trailing identifier that precedes, on
\* the same line, the nearest opening brace before the cursor that no closing
\* brace between it and the cursor matches, and null when every opening brace
\* before the cursor is matched or there is none.
C13_NearestUnmatchedBrace ==
    cpc = "found" =>
        /\ parentFound = Enclosing(document, position)
        /\ OpenAtCursor(document, position) = {} => parentFound = Null

\* The call found a parent whose brace is on a line above the cursor, past a
\* matched pair of braces, with a brace after the cursor left out
C13_Witness ==
    /\ cpc = "found"
    /\ parentFound # Null
    /\ LET bs == BracesToCursor(document, position)
           open == OpenAtCursor(document, position)
       IN  /\ open # {}
           /\ bs[Max(open)][1] < position.line
           /\ Max(open) < Len(bs)
    /\ \E col \in position.character..(Len(document[position.line + 1]) - 1) :
          document[position.line + 1][col + 1] = "{"


-----------------------------------------------------------------------------
(* Component and attribute completion *)

\* The text up to the cursor is blank, or ends with { and white space
StructuralContext(s) ==
    LET inked == {m \in 1..Len(s) : ~IsSpace(s[m])}
    IN  inked = {} \/ s[Max(inked)] = "{"

\* The names the table gives as valid children of a component, none for a
\* name the table does not have
ValidChildrenOf(name) ==
    UNION {{ALL_COMPONENTS[k].validChildren[m] : m \in 1..Len(ALL_COMPONENTS[k].validChildren)} :
              k \in {n \in 1..Len(ALL_COMPONENTS) : ALL_COMPONENTS[n].name = name}}

\* Whether a component is to be recommended under the enclosing component
Recommended(enclosing, name) ==
    IF enclosing = Null THEN name = pageName
    ELSE ValidChildrenOf(enclosing) = {} \/ name \in ValidChildrenOf(enclosing)

\* The order of the sort keys' prefixes
PrefixRank(sortText) == IF sortText[1] = "0_" THEN 0 ELSE 1

\* C11: in structural position every component is offered exactly once; a
\* component is recommended exactly when there is no enclosing component and
\* it is the root component, or there is one and its valid children are none
\* or include it; every recommended item sorts before every other.
C11_StructuralItems ==
    (cpc = "done" /\ StructuralContext(TextToCursor)) =>
        /\ Len(items) = Cardinality(ComponentNames)
        /\ Labels(items) = ComponentNames
        /\ \A k \in 1..Len(items) :
              items[k].recommended = Recommended(Enclosing(document, position), items[k].label)
        /\ \A k, m \in 1..Len(items) :
              (items[k].recommended /\ ~items[m].recommended) =>
                  PrefixRank(items[k].sortText) < PrefixRank(items[m].sortText)

\* Completion was given inside a component that names its valid children:
\* one component is recommended and another is not
C11_Witness ==
    /\ cpc = "done"
    /\ StructuralContext(TextToCursor)
    /\ Enclosing(document, position) # Null
    /\ ValidChildrenOf(Enclosing(document, position)) # {}
    /\ \E k, m \in 1..Len(items) : items[k].recommended /\ ~items[m].recommended

\* s[a..b] is an identifier followed, up to the end of s, by white space, at
\* most one quoted string and white space, and an identifier prefix
IsComponentBeforePrefix(s, a, b) ==
    /\ \A m \in a..b : IsWord(s[m])
    /\ a = 1 \/ ~IsWord(s[a - 1])
    /\ \E p \in (b + 2)..(Len(s) + 1) :
          /\ \A m \in p..Len(s) : IsWord(s[m])
          /\ \/ \A m \in (b + 1)..(p - 1) : IsSpace(s[m])
             \/ \E x, y \in (b + 2)..(p - 2) :
                   /\ x < y
                   /\ s[x] = QUOTE /\ s[y] = QUOTE
                   /\ \A m \in (b + 1)..(x - 1) : IsSpace(s[m])
                   /\ \A m \in (x + 1)..(y - 1) : s[m] # QUOTE
                   /\ \A m \in (y + 1)..(p - 1) : IsSpace(s[m])

\* The first such identifier of s, none when there is none
AttributeContext(s) ==
    LET found == {ab \in (1..Len(s)) \X (1..Len(s)) :
                     ab[1] <= ab[2] /\ IsComponentBeforePrefix(s, ab[1], ab[2])}
    IN  {SubSeq(s, ab[1], ab[2]) : ab \in {c \in found : \A d \in found : c[1] <= d[1]}}

\* The attributes the table declares for a component
DeclaredAttributes(name) ==
    UNION {{ALL_COMPONENTS[k].attributes[m] : m \in 1..Len(ALL_COMPONENTS[k].attributes)} :
              k \in {n \in 1..Len(ALL_COMPONENTS) : ALL_COMPONENTS[n].name = name}}

\* C12: in attribute position, after a known component the result is
\* exactly the attributes declared for it, after any other name it is every
\* known attribute, and no component is offered in either case.
C12_AttributeItems ==
    (cpc = "done" /\ ValueContext(TextToCursor) = {} /\ ~StructuralContext(TextToCursor)) =>
        \A name \in AttributeContext(TextToCursor) :
            /\ name \in ComponentNames =>
                  /\ Labels(items) = DeclaredAttributes(name)
                  /\ Len(items) = Cardinality(DeclaredAttributes(name))
            /\ name \notin ComponentNames =>
                  /\ Labels(items) = AttributeNames
                  /\ Len(items) = Cardinality(AttributeNames)
            /\ \A k \in 1..Len(items) : items[k].kind = "Property"
            /\ Labels(items) \cap ComponentNames = {}

\* Completion was given after a known component and a quoted string, with
\* the prefix of an attribute typed
C12_Witness ==
    /\ cpc = "done"
    /\ AttributeContext(TextToCursor) = {buttonName}
    /\ QUOTE \in {TextToCursor[m] : m \in 1..Len(TextToCursor)}
    /\ IsWord(TextToCursor[Len(TextToCursor)])
    /\ Labels(items) = {primaryName, altName}


-----------------------------------------------------------------------------
(* The two error renderings called on the messages and sources made of at  *)
(* most MaxEscapeFrags of these fragments                                  *)

EscapeFrags ==
    {<<"&">>, <<"<">>, <<">">>, <<QUOTE>>, <<"'">>, <<"s", "c", "r", "i", "p", "t">>, AMP}

EscapeTexts == FragTexts(EscapeFrags, MaxEscapeFrags)

\* Sources echoed by the markdown preview
EscapeSources == {pageName \o <<" ", QUOTE, "a", "'", "b", QUOTE>>, <<"<", "b", ">">>}

InitEscape ==
    /\ args \in [message : EscapeTexts, code : EscapeSources]
    /\ returned = <<>>
    /\ called = "none"
    /\ ScanIdle
    /\ WorkspaceIdle
    /\ CompletionIdle
    /\ HostIdle
    /\ ExportIdle

\* The panel renders the message of a failure
GetErrorContent ==
    /\ called = "none"
    /\ returned' = getErrorContent(args.message)
    /\ called' = "getErrorContent"
    /\ UNCHANGED <<args, scanVars, workspaceVars, completionVars, hostVars, exportVars>>

\* The markdown preview renders a fence whose source fails to parse or render
RenderErrorBlock ==
    /\ called = "none"
    /\ returned' = ErrorBlock(args.message, args.code)
    /\ called' = "renderWireframeToHtml"
    /\ UNCHANGED <<args, scanVars, workspaceVars, completionVars, hostVars, exportVars>>

NextEscape == GetErrorContent \/ RenderErrorBlock

SpecEscape == InitEscape /\ [][NextEscape]_vars

\* The entity of a character, the character itself when it has none
EntityOf(ch) ==
    CASE ch = "&" -> AMP
      [] ch = "<" -> LT
      [] ch = ">" -> GT
      [] ch = QUOTE -> QUOT
      [] ch = "'" -> APOS
      [] OTHER -> <<ch>>

\* The text with each of the five characters replaced by its entity
Escaped(s) == Concat([k \in 1..Len(s) |-> EntityOf(s[k])])

\* C14 as stated: on both surfaces each of the five characters & < > " ' of
\* the user-supplied text (the message, and the source the markdown preview
\* echoes) is replaced by its entity.
C14_AsStated ==
    /\ called = "getErrorContent" => returned.pre = Escaped(args.message)
    /\ called = "renderWireframeToHtml" =>
          /\ returned.strong = Escaped(args.message)
          /\ returned.source = Escaped(args.code)


-----------------------------------------------------------------------------
(* The three size computations called on the documents whose first page    *)
(* has or lacks each of width, height, viewport and device                 *)

\* Widths and heights a page declares, and values of the previewWidth setting
Sizes == {0, 3, 375, 799, 800, 801, 1201}
PreviewWidths == {799, 800, 801, DefaultPreviewWidth}

Optional(S) == {<<>>} \cup {<<x>> : x \in S}

FirstPages ==
    [width : Optional(Sizes), height : Optional(Sizes),
     viewport : Optional({"mobile"}), device : Optional({"ipad"})]

InitViewport ==
    /\ args \in [children : {<<>>} \cup {<<p>> : p \in FirstPages},
                 previewWidth : PreviewWidths]
    /\ returned = <<>>
    /\ called = "none"
    /\ ScanIdle
    /\ WorkspaceIdle
    /\ CompletionIdle
    /\ HostIdle
    /\ ExportIdle

\* The preview panel lays out a rendered document
GetWebviewContent ==
    /\ called = "none"
    /\ returned' = getWebviewContent(<<>>, args.children, args.previewWidth)
    /\ called' = "getWebviewContent"
    /\ UNCHANGED <<args, scanVars, workspaceVars, completionVars, hostVars, exportVars>>

\* The fixed-scale preview panel lays out a rendered document
GetFixedScaleWebviewContent ==
    /\ called = "none"
    /\ returned' = FixedScaleWebviewContent(<<>>, args.children, args.previewWidth)
    /\ called' = "getWebviewContent (fixed scale)"
    /\ UNCHANGED <<args, scanVars, workspaceVars, completionVars, hostVars, exportVars>>

\* The markdown preview lays out a rendered fence
RenderWireframeToHtml ==
    /\ called = "none"
    /\ returned' = EmbedContent(<<>>, args.children)
    /\ called' = "renderWireframeToHtml"
    /\ UNCHANGED <<args, scanVars, workspaceVars, completionVars, hostVars, exportVars>>

NextViewport ==
    GetWebviewContent \/ GetFixedScaleWebviewContent \/ RenderWireframeToHtml

SpecViewport == InitViewport /\ [][NextViewport]_vars

\* The size the stated precedence gives for a first page
SizeByPrecedence(firstPage, previewWidth) ==
    IF /\ firstPage.width # <<>> /\ firstPage.width[1] > 0
       /\ firstPage.height # <<>> /\ firstPage.height[1] > 0
    THEN <<firstPage.width[1], firstPage.height[1]>>
    ELSE IF firstPage.viewport # <<>> \/ firstPage.device # <<>>
    THEN <<resolveViewport(firstPage.viewport, firstPage.device).width,
           resolveViewport(firstPage.viewport, firstPage.device).height>>
    ELSE <<previewWidth, CHOOSE h \in 0..previewWidth :
                            4 * h - 2 <= 3 * previewWidth /\ 3 * previewWidth < 4 * h + 2>>

\* C15 as stated: the base size is the explicit width and height of the
\* first element when both are present, otherwise the size the resolver
\* gives for its named viewport or device, otherwise (neither declared) the
\* configured default width with height round(width * 0.75).
C15_AsStated ==
    (called # "none" /\ args.children # <<>>) =>
        <<returned.baseWidth, returned.baseHeight>>
            = SizeByPrecedence(args.children[1], args.previewWidth)

\* The scaled length that is base * tenths / 10 rounded to the nearest
\* integer, halves up
IsRounded(scaled, base, tenths) ==
    /\ 20 * scaled - 10 <= 2 * base * tenths
    /\ 2 * base * tenths < 20 * scaled + 10

\* C20: the scale is 0.5 exactly when the base width is greater than 800
\* and 0.8 otherwise, and the scaled width and height are round(base *
\* scale), which keeps the aspect ratio up to rounding.
C20_FixedScale ==
    /\ called = "getWebviewContent (fixed scale)" =>
          /\ returned.fixedScale = 5 <=> returned.baseWidth > 800
          /\ returned.fixedScale = 8 <=> returned.baseWidth <= 800
          /\ IsRounded(returned.scaledWidth, returned.baseWidth, returned.fixedScale)
          /\ IsRounded(returned.scaledHeight, returned.baseHeight, returned.fixedScale)
          /\ LET cross == returned.scaledWidth * returned.baseHeight
                              - returned.scaledHeight * returned.baseWidth
             IN  /\ 2 * cross <= returned.baseWidth + returned.baseHeight
                 /\ 2 * (0 - cross) <= returned.baseWidth + returned.baseHeight
    /\ called = "renderWireframeToHtml" =>
          /\ returned.maxScale = 5 <=> returned.baseWidth > 800
          /\ returned.maxScale = 8 <=> returned.baseWidth <= 800
          /\ IsRounded(returned.scaledWidth, returned.baseWidth, returned.maxScale)

\* The fixed-scale panel laid out a document of base width 800 exactly: the
\* scale is 0.8 and the scaled size 640 by 480
C20_Witness ==
    /\ called = "getWebviewContent (fixed scale)"
    /\ returned.baseWidth = 800
    /\ returned.fixedScale = 8
    /\ returned.scaledWidth = 640
    /\ returned.scaledHeight = 480


-----------------------------------------------------------------------------
(* The extension in its host: documents and editors come and go, the       *)
(* preview commands are run, the panel is hidden, shown and closed         *)

\* The texts of the documents: empty, blank, a page, a source parse throws
\* on, a source render throws on
PanelTexts == {<<>>, <<" ", NL>>, pageName, <<"}">>, pageName \o <<"}">>}

\* The second wireframe document and the markdown document take fewer
TextsOf(uri) ==
    IF uri = "a.wf" THEN PanelTexts
    ELSE IF uri = "b.wf" THEN {pageName, <<"}">>}
    ELSE {pageName}

\* After activate: some documents are open, one of them may be in the
\* active editor, the autoPreview setting is on or off, no panel yet
InitPanel ==
    /\ textDocuments \in {docs \in [Uris -> {ClosedDocument} \cup
                                            {OpenDocument(t) : t \in PanelTexts}] :
                             \A u \in Uris : docs[u].open => docs[u].text \in TextsOf(u)}
    /\ diagnosticCollection = ValidateOpenDocuments(textDocuments)
    /\ lastEvent = "activate"
    /\ activeTextEditor \in {"none"} \cup {u \in Uris : textDocuments[u].open}
    /\ autoPreview \in BOOLEAN
    /\ timers = 0
    /\ panels = 0
    /\ currentPanel = FALSE
    /\ html = <<>>
    /\ visible = FALSE
    /\ uncaught = FALSE
    /\ ScanIdle
    /\ CompletionIdle
    /\ ExportIdle
    /\ CallIdle

\* createOrShow as a step: the panel created gets its initial content
CreateOrShow ==
    LET after == createOrShow(currentPanel, panels)
        content == InitialContent(textDocuments, activeTextEditor)
    IN  /\ currentPanel' = after.currentPanel
        /\ panels' = after.panels
        /\ html' = IF after.created THEN content.html ELSE html
        /\ visible' = IF after.created THEN TRUE ELSE visible
        /\ uncaught' = (uncaught \/ (after.created /\ content.thrown))

\* The commands wireframe.preview and wireframe.previewToSide
PreviewCommand(side) ==
    /\ CreateOrShow
    /\ lastEvent' = IF side THEN "previewToSide" ELSE "preview"
    /\ UNCHANGED <<textDocuments, diagnosticCollection, activeTextEditor, autoPreview, timers>>
    /\ UNCHANGED <<scanVars, completionVars, exportVars, callVars>>

\* A timer of the open handler runs out: the previewToSide command is run
TimerFires ==
    /\ timers > 0
    /\ timers' = timers - 1
    /\ CreateOrShow
    /\ lastEvent' = "timer"
    /\ UNCHANGED <<textDocuments, diagnosticCollection, activeTextEditor, autoPreview>>
    /\ UNCHANGED <<scanVars, completionVars, exportVars, callVars>>

\* The user closes a panel; onDidDispose runs dispose(), which clears the
\* reference
DisposePanel ==
    /\ panels > 0
    /\ panels' = panels - 1
    /\ currentPanel' = FALSE
    /\ html' = <<>>
    /\ visible' = FALSE
    /\ lastEvent' = "dispose"
    /\ UNCHANGED <<textDocuments, diagnosticCollection, activeTextEditor, autoPreview, timers,
                   uncaught>>
    /\ UNCHANGED <<scanVars, completionVars, exportVars, callVars>>

\* onDidChangeActiveTextEditor: the preview is updated for a wireframe editor
DidChangeActiveTextEditor(editor) ==
    /\ editor # activeTextEditor
    /\ editor # "none" => textDocuments[editor].open
    /\ activeTextEditor' = editor
    /\ LET after == IF IsWireframeEditor(editor)
                    THEN update(currentPanel, html, textDocuments[editor].text)
                    ELSE Completed(html)
       IN  /\ html' = after.html
           /\ uncaught' = (uncaught \/ after.thrown)
    /\ lastEvent' = "editor"
    /\ UNCHANGED <<textDocuments, diagnosticCollection, autoPreview, timers, panels,
                   currentPanel, visible>>
    /\ UNCHANGED <<scanVars, completionVars, exportVars, callVars>>

\* panel.onDidChangeViewState: a panel that became visible is updated from
\* the active editor when that is a wireframe editor
DidChangeViewState(shown) ==
    /\ currentPanel
    /\ shown # visible
    /\ visible' = shown
    /\ LET after == IF shown /\ IsWireframeEditor(activeTextEditor)
                    THEN updateContent(html, textDocuments[activeTextEditor].text)
                    ELSE Completed(html)
       IN  /\ html' = after.html
           /\ uncaught' = (uncaught \/ after.thrown)
    /\ lastEvent' = "viewState"
    /\ UNCHANGED <<textDocuments, diagnosticCollection, activeTextEditor, autoPreview, timers,
                   panels, currentPanel>>
    /\ UNCHANGED <<scanVars, completionVars, exportVars, callVars>>

NextPanel ==
    \/ \E uri \in Uris : \E txt \in TextsOf(uri) : DidOpenTextDocument(uri, txt)
    \/ \E uri \in Uris : \E txt \in TextsOf(uri) : DidChangeTextDocument(uri, txt)
    \/ \E uri \in Uris : DidCloseTextDocument(uri)
    \/ \E side \in BOOLEAN : PreviewCommand(side)
    \/ TimerFires
    \/ DisposePanel
    \/ \E editor \in Uris \cup {"none"} : DidChangeActiveTextEditor(editor)
    \/ \E shown \in BOOLEAN : DidChangeViewState(shown)

SpecPanel == InitPanel /\ [][NextPanel]_vars


\* The events that run createOrShow
PreviewEvents == {"preview", "previewToSide", "timer"}

\* C16: at most one preview panel exists and the reference is set exactly
\* when a live panel exists; createOrShow creates a panel only when the
\* reference is unset, and then always, also after a dispose, and otherwise
\* leaves the panel that exists; dispose clears the reference; an update
\* creates no panel.
C16_SingletonPanel ==
    /\ [](panels <= 1 /\ (currentPanel <=> panels = 1))
    /\ [][/\ panels' > panels =>
                (~currentPanel /\ panels' = panels + 1 /\ lastEvent' \in PreviewEvents)
          /\ (lastEvent' \in PreviewEvents /\ currentPanel) =>
                (currentPanel' /\ panels' = panels /\ html' = html)
          /\ (lastEvent' \in PreviewEvents /\ ~currentPanel) =>
                (currentPanel' /\ panels' = panels + 1)
          /\ lastEvent' = "dispose" => (~currentPanel' /\ panels' = panels - 1)
          /\ lastEvent' \in {"change", "editor", "open", "close"} =>
                (panels' = panels /\ currentPanel' = currentPanel)]_vars

\* A panel was created by the previewToSide command and is the only one
C16_Witness ==
    /\ lastEvent = "previewToSide"
    /\ currentPanel
    /\ panels = 1
    /\ html # <<>>

\* The content the panel is to have for a text: the welcome page for a blank
\* text, the error document with the escaped message when parse or render
\* throws, the preview of the text otherwise
IsContentFor(content, source) ==
    IF \A k \in 1..Len(source) : IsSpace(source[k])
    THEN content = Welcome
    ELSE IF parse(source).throws
    THEN content.kind = "error" /\ content.pre = Escaped(parse(source).message)
    ELSE IF render(parse(source)).throws
    THEN content.kind = "error" /\ content.pre = Escaped(render(parse(source)).message)
    ELSE content.kind = "preview" /\ content.body = render(parse(source)).body

\* The texts of the open wireframe documents
WireframeTexts(docs) ==
    {docs[u].text : u \in {v \in Uris : languageId(v) = "wireframe" /\ docs[v].open}}

\* C17: a panel update never throws to the host; the content it leaves is
\* the welcome page, the error document or the preview, as the text of a
\* wireframe document tells; after a change of a wireframe document while a
\* panel exists the panel has the content for the new text.
C17_PanelContent ==
    /\ [](~uncaught)
    /\ [](currentPanel => html.kind \in {"welcome", "error", "preview"})
    /\ [][(currentPanel' /\ html' # html) =>
             \/ html' = Welcome
             \/ \E source \in WireframeTexts(textDocuments') : IsContentFor(html', source)]_vars
    /\ [][\A uri \in Uris :
             (/\ languageId(uri) = "wireframe"
              /\ currentPanel
              /\ lastEvent' = "change"
              /\ textDocuments'[uri] # textDocuments[uri]) =>
                 IsContentFor(html', textDocuments'[uri].text)]_vars

\* After a change the panel shows the error document of a source that
\* render throws on, quote and angle brackets escaped
C17_Witness ==
    /\ lastEvent = "change"
    /\ currentPanel
    /\ html.kind = "error"
    /\ html.pre = Escaped(RenderMessage)
    /\ \E u \in Uris : textDocuments[u] = OpenDocument(pageName \o <<"}">>)

\* C19 as stated: no operation schedules a timer.
C19_AsStated == timers = 0

\* C19: a timer is set only by the open handler, for a wireframe document
\* and with the autoPreview setting on, one at a time; the timer's callback
\* runs createOrShow and nothing else; no other event leaves a timer.
C19_TimerOnlyForAutoPreview ==
    /\ [](~autoPreview => timers = 0)
    /\ [][timers' > timers =>
             /\ autoPreview
             /\ lastEvent' = "open"
             /\ timers' = timers + 1
             /\ \E uri \in Uris :
                   /\ languageId(uri) = "wireframe"
                   /\ ~textDocuments[uri].open
                   /\ textDocuments'[uri].open]_vars
    /\ [][timers' < timers =>
             /\ lastEvent' = "timer"
             /\ timers' = timers - 1
             /\ UNCHANGED <<textDocuments, diagnosticCollection, activeTextEditor>>]_vars

\* A panel was created by the callback of a timer, after the open handler
\* that set it had returned
C19_Witness ==
    /\ autoPreview
    /\ lastEvent = "timer"
    /\ currentPanel
    /\ panels = 1


-----------------------------------------------------------------------------
(* The export command: exportToFile up to the save dialog, the dialog's    *)
(* answer, the end of the write; documents change in between               *)

\* The documents of the export and their texts
ExportUris == {"a.wf", "n.md"}

ExportTexts(uri) ==
    IF uri = "a.wf" THEN {pageName, pageName \o <<NL>>, <<"}">>, pageName \o <<"}">>}
    ELSE {pageName}

InitExport ==
    /\ textDocuments \in {docs \in [Uris -> {ClosedDocument} \cup
                                            {OpenDocument(t) : t \in ExportTexts("a.wf")}] :
                             \A u \in Uris : docs[u].open =>
                                                (u \in ExportUris /\ docs[u].text \in ExportTexts(u))}
    /\ diagnosticCollection = ValidateOpenDocuments(textDocuments)
    /\ lastEvent = "activate"
    /\ activeTextEditor \in {"none"} \cup {u \in Uris : textDocuments[u].open}
    /\ autoPreview = FALSE
    /\ timers = 0
    /\ panels = 0
    /\ currentPanel = FALSE
    /\ html = <<>>
    /\ visible = FALSE
    /\ uncaught = FALSE
    /\ ExportIdle
    /\ ScanIdle
    /\ CompletionIdle
    /\ CallIdle

\* The command wireframe.exportHtml: exportToFile up to showSaveDialog
ExportCommand ==
    /\ exportState = "idle"
    /\ Len(notifications) < MaxNotifications
    /\ IF IsWireframeEditor(activeTextEditor)
       THEN /\ exportState' = "dialog"
            /\ exportDocument' = activeTextEditor
            /\ UNCHANGED notifications
       ELSE /\ notifications' =
                  Append(notifications, ErrorMessage(<<"No wireframe file is active">>))
            /\ UNCHANGED <<exportState, exportDocument>>
    /\ lastEvent' = "export"
    /\ UNCHANGED <<exportContent, files>>
    /\ UNCHANGED <<textDocuments, diagnosticCollection, hostVars, scanVars, completionVars,
                   callVars>>

\* The save dialog is cancelled: exportToFile returns
DialogCancelled ==
    /\ exportState = "dialog"
    /\ exportState' = "idle"
    /\ exportDocument' = "none"
    /\ lastEvent' = "dialogCancel"
    /\ UNCHANGED <<exportContent, notifications, files>>
    /\ UNCHANGED <<textDocuments, diagnosticCollection, hostVars, scanVars, completionVars,
                   callVars>>

\* The save dialog gives a destination: export is called on the document
\* as it is now, and its content is given to writeFile or its error shown
DialogConfirmed ==
    /\ exportState = "dialog"
    /\ LET result == export(textDocuments[exportDocument].text)
       IN  IF result.throws
           THEN /\ notifications' =
                      Append(notifications, ErrorMessage(<<"Export failed: ">> \o result.message))
                /\ exportState' = "idle"
                /\ exportDocument' = "none"
                /\ UNCHANGED exportContent
           ELSE /\ exportState' = "writing"
                /\ exportContent' = result.content
                /\ UNCHANGED <<notifications, exportDocument>>
    /\ lastEvent' = "dialogSave"
    /\ UNCHANGED files
    /\ UNCHANGED <<textDocuments, diagnosticCollection, hostVars, scanVars, completionVars,
                   callVars>>

\* writeFile completes, the content taken from the document again
WriteCompleted_ReadsAgain ==
    /\ exportState = "writing"
    /\ files' = Append(files, IF export(textDocuments[exportDocument].text).throws
                              THEN exportContent
                              ELSE export(textDocuments[exportDocument].text).content)
    /\ notifications' = Append(notifications, InformationMessage(<<"Exported to ">>))
    /\ exportState' = "idle"
    /\ exportDocument' = "none"
    /\ exportContent' = <<>>
    /\ lastEvent' = "writeDone"
    /\ UNCHANGED <<textDocuments, diagnosticCollection, hostVars, scanVars, completionVars,
                   callVars>>

\* writeFile completes: the success message is shown
WriteCompleted ==
    /\ exportState = "writing"
    /\ files' = Append(files, exportContent)
    /\ notifications' = Append(notifications, InformationMessage(<<"Exported to ">>))
    /\ exportState' = "idle"
    /\ exportDocument' = "none"
    /\ exportContent' = <<>>
    /\ lastEvent' = "writeDone"
    /\ UNCHANGED <<textDocuments, diagnosticCollection, hostVars, scanVars, completionVars,
                   callVars>>

\* writeFile throws: the catch shows the error
WriteFailed ==
    /\ exportState = "writing"
    /\ notifications' =
          Append(notifications, ErrorMessage(<<"Export failed: ", WriteMessage>>))
    /\ exportState' = "idle"
    /\ exportDocument' = "none"
    /\ exportContent' = <<>>
    /\ lastEvent' = "writeFail"
    /\ UNCHANGED files
    /\ UNCHANGED <<textDocuments, diagnosticCollection, hostVars, scanVars, completionVars,
                   callVars>>

NextExport ==
    \/ ExportCommand
    \/ DialogCancelled
    \/ DialogConfirmed
    \/ WriteCompleted
    \/ WriteFailed
    \/ \E uri \in ExportUris : \E txt \in ExportTexts(uri) : DidOpenTextDocument(uri, txt)
    \/ \E uri \in ExportUris : \E txt \in ExportTexts(uri) : DidChangeTextDocument(uri, txt)
    \/ \E uri \in ExportUris : DidCloseTextDocument(uri)
    \/ \E editor \in ExportUris \cup {"none"} : DidChangeActiveTextEditor(editor)

SpecExport == InitExport /\ [][NextExport]_vars


\* The source can be parsed and rendered
Renders(source) == ~parse(source).throws /\ ~render(parse(source)).throws

\* The message of the failure parse or render has on a source
FailureOf(source) ==
    IF parse(source).throws THEN parse(source).message ELSE render(parse(source)).message

NoActiveMessage == ErrorMessage(<<"No wireframe file is active">>)

\* C18: a file is written only for a wireframe document in the active
\* editor, after the dialog gave a destination and parse and render
\* succeeded; with no active wireframe document the command shows 'No
\* wireframe file is active' and opens no dialog; a cancelled dialog writes
\* and shows nothing; a failure of parse or render or of the write shows
\* exactly one 'Export failed: ' message (with 'Parse error: ' for the
\* former), no success message, and nothing is tried again; the success
\* message is shown only when the write has completed.
C18_Export ==
    /\ [](exportState # "idle" =>
             (languageId(exportDocument) = "wireframe" /\ textDocuments[exportDocument].open))
    /\ [][/\ Len(notifications') <= Len(notifications) + 1
          /\ files' # files =>
                /\ exportState = "writing" /\ lastEvent' = "writeDone"
                /\ files' = Append(files, exportContent)
          /\ (exportState' = "writing" /\ exportState # "writing") =>
                /\ exportState = "dialog" /\ lastEvent' = "dialogSave"
                /\ Renders(textDocuments[exportDocument].text)
                /\ exportContent' = render(parse(textDocuments[exportDocument].text)).body
          /\ (lastEvent' = "export" /\ ~IsWireframeEditor(activeTextEditor)) =>
                /\ notifications' = Append(notifications, NoActiveMessage)
                /\ exportState' = "idle"
          /\ (lastEvent' = "export" /\ IsWireframeEditor(activeTextEditor)) =>
                /\ exportState' = "dialog"
                /\ notifications' = notifications
          /\ lastEvent' = "dialogCancel" =>
                /\ exportState' = "idle"
                /\ notifications' = notifications
                /\ files' = files
          /\ (lastEvent' = "dialogSave" /\ ~Renders(textDocuments[exportDocument].text)) =>
                /\ notifications' = Append(notifications,
                      ErrorMessage(<<"Export failed: ", "Parse error: ",
                                     FailureOf(textDocuments[exportDocument].text)>>))
                /\ exportState' = "idle"
                /\ files' = files
          /\ lastEvent' = "writeFail" =>
                /\ notifications' = Append(notifications,
                      ErrorMessage(<<"Export failed: ", WriteMessage>>))
                /\ exportState' = "idle"
                /\ files' = files
          /\ (Len(notifications') > Len(notifications)
                /\ notifications'[Len(notifications')].kind = "information") =>
                files' = Append(files, exportContent)]_vars

\* A first export failed on a source render throws on and showed one
\* message; a second one, of a source that renders, wrote its file
C18_Witness ==
    /\ lastEvent = "writeDone"
    /\ Len(files) = 1
    /\ Len(notifications) = 2
    /\ notifications[1] = ErrorMessage(<<"Export failed: ", "Parse error: ", RenderMessage>>)
    /\ notifications[2].kind = "information"


-----------------------------------------------------------------------------
(* The fence rule extendMarkdownIt installs, called on the fences whose    *)
(* info string is made of at most MaxInfoFrags of these fragments          *)

\* 'wireframe' and 'wf'
FenceNames == {<<"w", "i", "r", "e", "f", "r", "a", "m", "e">>, <<"w", "f">>}

\* What a call that returns leaves: the value, and that nothing was thrown
Returned(value) == [value |-> value, thrown |-> FALSE]

\* renderWireframeToHtml(code)
renderWireframeToHtml(code) ==
    LET doc == parse(code)
    IN  IF doc.throws THEN Returned(ErrorBlock(doc.message, code))
        ELSE IF render(doc).throws THEN Returned(ErrorBlock(render(doc).message, code))
        ELSE Returned(EmbedContent(render(doc).body, doc.children))

\* What the fence rule installed before, and self.renderToken, return
DefaultFence(token) == [kind |-> "defaultFence", token |-> token]
RenderToken(token) == [kind |-> "renderToken", token |-> token]

\* The fence rule that takes every fence whose info starts with a name of
\* the language
fence_ByPrefix(token, hasDefaultFence) ==
    LET info == IF token.info.defined /\ token.info.text # <<>>
                THEN Trim(token.info.text) ELSE <<>>
    IN  IF \E name \in FenceNames : StartsWith(info, name)
        THEN renderWireframeToHtml(token.content)
        ELSE IF hasDefaultFence THEN Returned(DefaultFence(token))
        ELSE Returned(RenderToken(token))

\* md.renderer.rules.fence as extendMarkdownIt sets it
fence(token, hasDefaultFence) ==
    LET info == IF token.info.defined /\ token.info.text # <<>>
                THEN Trim(token.info.text) ELSE <<>>
    IN  IF info \in FenceNames
        THEN renderWireframeToHtml(token.content)
        ELSE IF hasDefaultFence THEN Returned(DefaultFence(token))
        ELSE Returned(RenderToken(token))

InfoFrags == FenceNames \cup {<<" ">>, <<"\t">>, <<"x">>}

\* The sources of the fences: one that renders, one parse throws on, one
\* render throws on
FenceContents == {pageName \o <<NL>>, <<"<", "b", ">", "&", QUOTE>>, pageName \o <<"}">>}

InitFence ==
    /\ args \in [token : [info : {[defined |-> FALSE, text |-> <<>>]} \cup
                                 {[defined |-> TRUE, text |-> t] :
                                     t \in FragTexts(InfoFrags, MaxInfoFrags)},
                          content : FenceContents],
                 hasDefaultFence : BOOLEAN]
    /\ returned = <<>>
    /\ called = "none"
    /\ ScanIdle
    /\ WorkspaceIdle
    /\ CompletionIdle
    /\ HostIdle
    /\ ExportIdle

\* The markdown preview renders a fence
Fence ==
    /\ called = "none"
    /\ returned' = fence(args.token, args.hasDefaultFence)
    /\ called' = "fence"
    /\ UNCHANGED <<args, scanVars, workspaceVars, completionVars, hostVars, exportVars>>

NextFence == Fence

SpecFence == InitFence /\ [][NextFence]_vars

\* The info string is a name of the language with white space around it
IsWireframeInfo(info) ==
    /\ info.defined
    /\ \E a, b \in 1..Len(info.text) :
          /\ SubSeq(info.text, a, b) \in FenceNames
          /\ \A m \in 1..(a - 1) : IsSpace(info.text[m])
          /\ \A m \in (b + 1)..Len(info.text) : IsSpace(info.text[m])

\* The text with & < > and the double quote replaced by their entities
EscapedMarkup(s) == Concat([k \in 1..Len(s) |-> IF s[k] = "'" THEN <<"'">> ELSE EntityOf(s[k])])

-----------------------------------------------------------------------------
(* Properties of the warnings of the scan *)

\* The diagnostics with this message on line n (0-based), in order
OnLine(diags, message, n) ==
    SelectSeq(diags, LAMBDA d : d.message = message /\ d.line = n)

\* The identifier a line begins with after optional whitespace, when it is
\* immediately followed by whitespace, '{' or a double quote: {<<k, e>>}
\* with the identifier at the 1-based columns k..e, or {} when there is none
LeadingIdentifier(line) ==
    {ke \in (1..Len(line)) \X (1..Len(line)) :
        /\ ke[1] <= ke[2]
        /\ ke[2] < Len(line)
        /\ \A m \in 1..(ke[1] - 1) : IsSpace(line[m])
        /\ \A m \in ke[1]..ke[2] : IsWord(line[m])
        /\ IsSpace(line[ke[2] + 1]) \/ line[ke[2] + 1] \in {"{", QUOTE}}

\* C22: a line that is not a comment and begins, after optional whitespace,
\* with an identifier immediately followed by whitespace, '{' or a double
\* quote gets exactly one 'Unknown component' warning when the identifier is
\* not a known component and is neither true nor false, and none otherwise;
\* no other line gets such a warning.
C22_UnknownComponent ==
    pc = "done" =>
        \A n \in 0..(Len(lines) - 1) :
            LET line == lines[n + 1]
                found == OnLine(diagnostics, "Unknown component", n)
                ids == {SubSeq(line, ke[1], ke[2]) : ke \in LeadingIdentifier(line)}
            IN  IF /\ ~CommentLine(line)
                   /\ \E name \in ids : name \notin ComponentNames \cup BooleanNames
                THEN /\ Len(found) = 1
                     /\ found[1].detail \in ids
                     /\ found[1].severity = "Warning"
                ELSE found = <<>>

\* A finished scan of lines that begin with true, with an indented false,
\* with an attribute and with a component: only the third has the warning
C22_Witness ==
    /\ pc = "done"
    /\ Len(lines) = 4
    /\ FirstToken(lines[1]) = <<"t", "r", "u", "e">>
    /\ FirstToken(lines[2]) = <<"f", "a", "l", "s", "e">>
    /\ FirstToken(lines[3]) = gapName
    /\ FirstToken(lines[4]) = rowName
    /\ CountMessage(diagnostics, "Unknown component") = 1
    /\ OnLine(diagnostics, "Unknown component", 2) # <<>>


\* The occurrences of 'identifier =' on a line, with optional whitespace
\* before the '=': <<a, b>> with the identifier at the 1-based columns a..b
AssignedIdentifiers(line) ==
    {ab \in (1..Len(line)) \X (1..Len(line)) :
        /\ ab[1] <= ab[2]
        /\ \A m \in ab[1]..ab[2] : IsWord(line[m])
        /\ ab[1] = 1 \/ ~IsWord(line[ab[1] - 1])
        /\ \E e \in (ab[2] + 1)..Len(line) :
              /\ line[e] = "="
              /\ \A m \in (ab[2] + 1)..(e - 1) : IsSpace(line[m])}

\* C23: on every line that is not a comment each occurrence of
\* 'identifier =' gets one 'Unknown attribute' warning over the identifier
\* exactly when the identifier is neither a known attribute nor a known
\* component, inside a quoted string as well; a comment line gets none.
C23_UnknownAttribute ==
    pc = "done" =>
        \A n \in 0..(Len(lines) - 1) :
            LET line == lines[n + 1]
                found == OnLine(diagnostics, "Unknown attribute", n)
                unknown == {ab \in AssignedIdentifiers(line) :
                               SubSeq(line, ab[1], ab[2]) \notin AttributeNames \cup ComponentNames}
            IN  IF CommentLine(line) THEN found = <<>>
                ELSE /\ Len(found) = Cardinality(unknown)
                     /\ {<<found[k].startCol, found[k].endCol, found[k].detail>> : k \in 1..Len(found)}
                           = {<<ab[1] - 1, ab[2], SubSeq(line, ab[1], ab[2])>> : ab \in unknown}
                     /\ \A k \in 1..Len(found) : found[k].severity = "Warning"

\* A finished scan of a line with a known attribute, a component name and
\* an unknown name before '=', and an unknown name before '=' between
\* quotes: the two unknown names have the warning
C23_Witness ==
    /\ pc = "done"
    /\ Len(lines) = 1
    /\ Cardinality(AssignedIdentifiers(lines[1])) = 4
    /\ QuoteCount(lines[1]) = 2
    /\ CountMessage(diagnostics, "Unknown attribute") = 2
    /\ \E k \in 1..Len(diagnostics) : diagnostics[k].detail = <<"y", "y">>


\* The diagnostics of this severity, in order
OfSeverity(diags, severity) == SelectSeq(diags, LAMBDA d : d.severity = severity)

\* The text has a character that is not whitespace
NonBlank(txt) == \E m \in 1..Len(txt) : ~IsSpace(txt[m])

\* C24: the diagnostics hold exactly one Information advisory, with the
\* empty range at line 0 column 0, when the text is not empty after
\* trimming and no line that is not a comment starts with page; a document
\* of whitespace only and a document with a page line have none.
C24_MissingRootAdvisory ==
    pc = "done" =>
        LET found == OfSeverity(diagnostics, "Information")
        IN  IF NonBlank(text) /\ PageLines(lines) = {}
            THEN /\ Len(found) = 1
                 /\ found[1].line = 0
                 /\ found[1].startCol = 0
                 /\ found[1].endCol = 0
                 /\ found[1].message = "Consider starting with a page component."
            ELSE found = <<>>

\* A finished scan of a document whose only page is in a comment, and that
\* has the advisory
C24_Witness ==
    /\ pc = "done"
    /\ text = <<"/", "/">> \o pageName
    /\ Len(OfSeverity(diagnostics, "Information")) = 1


-----------------------------------------------------------------------------
(* The document the panel shows *)

\* The panel has the content for the text this editor's document has now
ShowsEditor(editor) == IsContentFor(html', textDocuments'[editor].text)

\* C25: a panel that exists gets the content of a wireframe document at
\* each of these events and keeps its content at every other: its creation
\* with a wireframe document in the active editor, a change of any
\* wireframe document, in the active editor or not, the activation of a
\* wireframe editor, and becoming visible with a wireframe document in the
\* active editor.  A change of another document and the activation of
\* another editor leave the content as it is.
C25_ContentOfLastTrigger ==
    [][/\ (lastEvent' \in PreviewEvents /\ ~currentPanel /\ IsWireframeEditor(activeTextEditor))
             => ShowsEditor(activeTextEditor)
       /\ (lastEvent' \in PreviewEvents /\ currentPanel) => html' = html
       /\ \A uri \in Uris :
             (/\ lastEvent' = "change"
              /\ currentPanel
              /\ languageId(uri) = "wireframe"
              /\ textDocuments'[uri] # textDocuments[uri]) => ShowsEditor(uri)
       /\ (lastEvent' = "change" /\ currentPanel /\ textDocuments' = textDocuments)
             => \/ html' = html
                \/ \E source \in WireframeTexts(textDocuments) : IsContentFor(html', source)
       /\ (lastEvent' = "change" /\ currentPanel /\ WireframeTexts(textDocuments) = {})
             => html' = html
       /\ (lastEvent' = "editor" /\ currentPanel) =>
             IF IsWireframeEditor(activeTextEditor')
             THEN ShowsEditor(activeTextEditor')
             ELSE html' = html
       /\ (lastEvent' = "viewState" /\ currentPanel) =>
             IF visible' /\ IsWireframeEditor(activeTextEditor)
             THEN ShowsEditor(activeTextEditor)
             ELSE html' = html
       /\ (lastEvent' \in {"open", "close"} /\ currentPanel) => html' = html]_vars

\* After a change of b.wf the panel previews b.wf while the active editor
\* has a.wf, whose text parse throws on
C25_Witness ==
    /\ lastEvent = "change"
    /\ currentPanel
    /\ activeTextEditor = "a.wf"
    /\ textDocuments["a.wf"] = OpenDocument(<<"}">>)
    /\ textDocuments["b.wf"] = OpenDocument(pageName)
    /\ html.kind = "preview"


-----------------------------------------------------------------------------
(* The text an export takes *)

-----------------------------------------------------------------------------
(* A block whose opening brace has no component *)

\* The cursor is inside a block, and the line of the block's opening brace
\* has no identifier before the brace
InBareBlock(doc, pos) ==
    LET bs == BracesToCursor(doc, pos)
        open == OpenAtCursor(doc, pos)
    IN  /\ open # {}
        /\ LET b == bs[Max(open)]
           IN  \A m \in 1..b[2] : ~IsWord(doc[b[1] + 1][m])

\* C27: when the cursor is inside a block whose opening brace has no
\* identifier before it on its line, findParentComponent returns null, also
\* when a component encloses that block, and completion in structural
\* position offers every component and recommends only page.
C27_BareBlockIsRoot ==
    /\ (cpc = "found" /\ InBareBlock(document, position)) => parentFound = Null
    /\ (cpc = "done" /\ InBareBlock(document, position) /\ StructuralContext(TextToCursor)) =>
          /\ Labels(items) = ComponentNames
          /\ \A k \in 1..Len(items) : items[k].recommended <=> items[k].label = pageName

\* Completion was given inside a block with a bare brace that is itself
\* inside the block of a row: page is recommended, button is not
C27_Witness ==
    /\ cpc = "done"
    /\ InBareBlock(document, position)
    /\ StructuralContext(TextToCursor)
    /\ Cardinality(OpenAtCursor(document, position)) = 2
    /\ StartsWith(document[1], rowName)
    /\ \E k, m \in 1..Len(items) :
          /\ items[k].label = pageName /\ items[k].recommended
          /\ items[m].label = buttonName /\ ~items[m].recommended


-----------------------------------------------------------------------------
(* The range of the unknown-component warning *)

\* C28: every 'Unknown component' warning starts at column 0 of its line and
\* is as long as the identifier, the line's first token, whatever the
\* indentation: on a line indented by k > 0 it covers the columns from 0 to
\* the identifier's length, and not those of the identifier.
C28_RangeFromColumnZero ==
    pc = "done" =>
        \A k \in 1..Len(diagnostics) :
            diagnostics[k].message = "Unknown component" =>
                /\ diagnostics[k].detail = FirstToken(lines[diagnostics[k].line + 1])
                /\ diagnostics[k].startCol = 0
                /\ diagnostics[k].endCol = Len(diagnostics[k].detail)

\* A finished scan with the warning on a line indented by two columns: the
\* range ends where the identifier begins
C28_Witness ==
    /\ pc = "done"
    /\ \E k \in 1..Len(diagnostics) :
          /\ diagnostics[k].message = "Unknown component"
          /\ StartsWith(lines[diagnostics[k].line + 1], <<" ", " ", "z", "z">>)
          /\ diagnostics[k].startCol = 0
          /\ diagnostics[k].endCol = 2

====
